---- MODULE Spec2Model ----
(***************************************************************************)
(* AnkiLevels content script: the highlighter that walks the page's text   *)
(* nodes, matches them against the word -> difficulty mapping and replaces *)
(* matching text by highlight spans, in time-sliced batches, re-triggered  *)
(* by a debounced MutationObserver.                                        *)
(*                                                                         *)
(* Two revisions of the content script are modelled side by side:          *)
(*   "part_002" : src/unnamed/part_002 (covered positions are dropped)     *)
(*   "main"     : src/entrypoints/popup/main.ts lines 64-370 (stacking)    *)
(* Their scheduling code is identical; they differ in the matching loop    *)
(* and in how overlapping matches are resolved.                            *)
(*                                                                         *)
(* Strings are sequences of one-character strings; offsets are 0-based as  *)
(* in JavaScript.                                                          *)
(*                                                                         *)
(* The background script, src/entrypoints/background.ts, is modelled on    *)
(* its own: the IndexedDB word store, the sync with AnkiConnect and the    *)
(* getWords and refreshWords messages.                                     *)
(***************************************************************************)
EXTENDS Integers, Sequences, FiniteSets, TLC

(***************************************************************************)
(* Program constants                                                       *)
(***************************************************************************)
\* const batchSize = 50
batchSize == 50
\* setTimeout(..., 300): the debounce period of the MutationObserver, in ms
DebounceMs == 300

(***************************************************************************)
(* Bounds of the model                                                     *)
(***************************************************************************)
\* longest text of a unit in the exhaustive matching specification
MaxLen == 3
\* most entries of a mapping in the exhaustive matching specification
MaxWords == 2
\* most DOM mutations the host page makes in one behaviour
MaxMutations == 1
\* most passes alive at the same time
MaxActive == 2
\* granularity of the clock, in ms
TickMs == 150

(***************************************************************************)
(* Strings                                                                 *)
(***************************************************************************)
Min(a, b) == IF a < b THEN a ELSE b
Max(a, b) == IF a > b THEN a ELSE b

\* String.prototype.substring(s, e)
substring(text, s, e) == SubSeq(text, s + 1, e)

\* word occurs in text at offset i
occursAt(text, word, i) ==
  /\ i >= 0
  /\ i + Len(word) <= Len(text)
  /\ substring(text, i, i + Len(word)) = word

\* String.prototype.indexOf(word, from) for a non-empty word
indexOf(text, word, from) ==
  LET hits == {i \in Max(from, 0)..(Len(text) - Len(word)) : occursAt(text, word, i)}
  IN IF hits = {} THEN -1 ELSE CHOOSE i \in hits : \A j \in hits : i <= j

\* an includes that only looks at the start of the text
includesAtStart(text, word) == occursAt(text, word, 0)

\* String.prototype.includes(word)
includes(text, word) == indexOf(text, word, 0) # -1

\* !text.trim(): the text is empty or whitespace only
isBlank(text) == \A i \in 1..Len(text) : text[i] = " "

\* the concatenation of a sequence of strings
RECURSIVE concat(_)
concat(ss) == IF ss = <<>> THEN <<>> ELSE Head(ss) \o concat(Tail(ss))

(***************************************************************************)
(* Numbers: JavaScript numbers are IEEE 754 doubles.  A non-negative       *)
(* number is held exactly as its integer part and the bits after the       *)
(* binary point, most significant first; every arithmetic operation        *)
(* rounds its exact result to 53 significant bits, ties to even.           *)
(***************************************************************************)
\* the scores the background script stores: Math.max(0, Math.min(100, ...))
MaxScore == 100

\* bits of the significand of a double
SignificandBits == 53

mkNumber(int, frac) == [int |-> int, frac |-> frac]

\* the number of bits of the natural number n
RECURSIVE bitLength(_)
bitLength(n) == IF n = 0 THEN 0 ELSE 1 + bitLength(n \div 2)

\* how many 0 bits lead the fraction
leadingZeros(f) ==
  IF \A i \in 1..Len(f) : f[i] = 0 THEN Len(f)
  ELSE (CHOOSE i \in 1..Len(f) : f[i] = 1 /\ \A j \in 1..(i - 1) : f[j] = 0) - 1

\* add one unit in the last place of the fraction
incBits(f) ==
  LET zeros == {i \in 1..Len(f) : f[i] = 0}
  IN IF zeros = {} THEN [frac |-> [i \in 1..Len(f) |-> 0], carry |-> 1]
     ELSE LET p == CHOOSE i \in zeros : \A j \in zeros : j <= i
          IN [frac |-> [i \in 1..Len(f) |->
                          IF i < p THEN f[i] ELSE IF i = p THEN 1 ELSE 0],
              carry |-> 0]

\* a rounding that drops the bits beyond the significand
truncateToDouble(x) ==
  LET keep == IF x.int > 0 THEN SignificandBits - bitLength(x.int)
              ELSE leadingZeros(x.frac) + SignificandBits
  IN IF Len(x.frac) <= keep THEN x ELSE mkNumber(x.int, SubSeq(x.frac, 1, keep))

\* round to nearest double, ties to even
roundToDouble(x) ==
  LET keep == IF x.int > 0 THEN SignificandBits - bitLength(x.int)
              ELSE leadingZeros(x.frac) + SignificandBits
  IN IF Len(x.frac) <= keep THEN x
     ELSE LET kept == SubSeq(x.frac, 1, keep)
              guard == x.frac[keep + 1]
              sticky == \E i \in (keep + 2)..Len(x.frac) : x.frac[i] = 1
              lsb == IF keep = 0 THEN x.int % 2 ELSE x.frac[keep]
          IN IF guard = 1 /\ (sticky \/ lsb = 1)
             THEN LET r == incBits(kept) IN mkNumber(x.int + r.carry, r.frac)
             ELSE mkNumber(x.int, kept)

\* 2^j modulo d
RECURSIVE pow2mod(_, _)
pow2mod(j, d) ==
  IF j = 0 THEN 1 % d
  ELSE IF j % 2 = 0 THEN LET h == pow2mod(j \div 2, d) IN (h * h) % d
  ELSE (2 * pow2mod(j - 1, d)) % d

\* the remainder of the long division of r by d after n bits, r < d
remainderAfter(r, d, n) == (r * pow2mod(n, d)) % d

\* bit i after the binary point of r / d, r < d
divBit(r, d, i) == IF 2 * remainderAfter(r, d, i - 1) >= d THEN 1 ELSE 0

\* n / d for natural numbers n and d: the quotient's bits as far as the
\* significand and one guard bit need, then one more 1 when the division
\* has a remainder left, rounded
divide(n, d) ==
  LET int == n \div d
      r == n % d
      zeros == IF int > 0 THEN 0
               ELSE (CHOOSE i \in 1..bitLength(d) :
                       divBit(r, d, i) = 1 /\ \A j \in 1..(i - 1) : divBit(r, d, j) = 0) - 1
      count == zeros + SignificandBits + 1 - bitLength(int)
      bits == [i \in 1..count |-> divBit(r, d, i)]
  IN IF r = 0 THEN mkNumber(int, <<>>)
     ELSE roundToDouble(mkNumber(int, IF remainderAfter(r, d, count) # 0
                                      THEN Append(bits, 1) ELSE bits))

\* 1 - x for 0 <= x <= 1
oneMinus(x) ==
  IF x.int >= 1 THEN mkNumber(0, <<>>)
  ELSE IF \A i \in 1..Len(x.frac) : x.frac[i] = 0 THEN mkNumber(1, <<>>)
  ELSE roundToDouble(
         mkNumber(0, incBits([i \in 1..Len(x.frac) |-> 1 - x.frac[i]]).frac))

\* the natural number with the given bits
RECURSIVE valueOf(_)
valueOf(bits) ==
  IF bits = <<>> THEN 0
  ELSE 2 * valueOf(SubSeq(bits, 1, Len(bits) - 1)) + bits[Len(bits)]

\* the bits of a after position i are a smaller number than those of b
suffixLess(a, b, i) ==
  \E p \in (i + 1)..Len(a) :
    a[p] < b[p] /\ \A q \in (i + 1)..(p - 1) : a[q] = b[q]

\* 255 * x, computed as 256 * x - x
times255(x) ==
  LET n == Max(Len(x.frac), 8)
      f == [i \in 1..n |-> IF i <= Len(x.frac) THEN x.frac[i] ELSE 0]
      shifted == [i \in 1..n |-> IF i + 8 <= n THEN f[i + 8] ELSE 0]
      borrow(i) == IF suffixLess(shifted, f, i) THEN 1 ELSE 0
  IN roundToDouble(
       mkNumber(256 * x.int + valueOf(SubSeq(f, 1, 8)) - x.int - borrow(0),
                [i \in 1..n |-> (shifted[i] - f[i] - borrow(i) + 2) % 2]))

\* Math.round: the nearest integer, a tie going up
mathRound(x) == x.int + (IF x.frac # <<>> /\ x.frac[1] = 1 THEN 1 ELSE 0)

\* getDifficultyColor(level): `rgb(${red}, ${green}, 0)`
getDifficultyColor(level) ==
  [red |-> mathRound(times255(oneMinus(divide(level, 100)))),
   green |-> mathRound(times255(divide(level, 100))),
   blue |-> 0]

(***************************************************************************)
(* highlightWords: the longest-first word list                             *)
(***************************************************************************)
\* Array.prototype.sort is stable: insert e after every entry that is at
\* least as long
RECURSIVE insertByLength(_, _)
insertByLength(sorted, e) ==
  IF sorted = <<>> THEN <<e>>
  ELSE IF Len(Head(sorted).word) >= Len(e.word)
       THEN <<Head(sorted)>> \o insertByLength(Tail(sorted), e)
       ELSE <<e>> \o sorted

RECURSIVE sortByLengthFrom(_, _)
sortByLengthFrom(entries, acc) ==
  IF entries = <<>> THEN acc
  ELSE sortByLengthFrom(Tail(entries), insertByLength(acc, Head(entries)))

\* a list with the shortest word first
shortestFirstOf(wordsMap) ==
  LET sorted == sortByLengthFrom(wordsMap, <<>>)
  IN [i \in 1..Len(sorted) |-> sorted[Len(sorted) + 1 - i]]

\* Array.from(wordsMap.entries()).sort((a, b) => b[0].length - a[0].length)
sortedWordsOf(wordsMap) == sortByLengthFrom(wordsMap, <<>>)

(***************************************************************************)
(* processBatch: the matching loop                                         *)
(***************************************************************************)
mkMatch(index, e) ==
  [index |-> index, length |-> Len(e.word), word |-> e.word, level |-> e.level]

\* isCovered with the start of a match left out of its range
isCoveredAfterStart(matches, index) ==
  \E k \in 1..Len(matches) :
    index > matches[k].index /\ index < matches[k].index + matches[k].length

\* matches.some((m) => index >= m.index && index < m.index + m.length)
isCovered(matches, index) ==
  \E k \in 1..Len(matches) :
    index >= matches[k].index /\ index < matches[k].index + matches[k].length

\* the while loop over the occurrences of one word, part_002
RECURSIVE scanWord002(_, _, _, _)
scanWord002(text, e, index, matches) ==
  IF index = -1 THEN matches
  ELSE scanWord002(text, e, indexOf(text, e.word, index + 1),
                   IF ~isCovered(matches, index)
                   THEN Append(matches, mkMatch(index, e))
                   ELSE matches)

\* the while loop over the occurrences of one word, main.ts
RECURSIVE scanWordMain(_, _, _, _)
scanWordMain(text, e, index, matches) ==
  IF index = -1 THEN matches
  ELSE scanWordMain(text, e, indexOf(text, e.word, index + 1),
                    Append(matches, mkMatch(index, e)))

\* for (const [word, data] of sortedWords) { ... }
RECURSIVE matchLoop(_, _, _, _)
matchLoop(script, text, sortedWords, matches) ==
  IF sortedWords = <<>> THEN matches
  ELSE LET e == Head(sortedWords)
           found == IF ~includes(text, e.word) THEN matches
                    ELSE IF script = "part_002"
                         THEN scanWord002(text, e, indexOf(text, e.word, 0), matches)
                         ELSE scanWordMain(text, e, indexOf(text, e.word, 0), matches)
       IN matchLoop(script, text, Tail(sortedWords), found)

findMatches(script, text, sortedWords) == matchLoop(script, text, sortedWords, <<>>)

\* a comparator that puts the shortest match first at the same index
matchBeforeShortest(a, b) ==
  IF a.index # b.index THEN a.index < b.index ELSE a.length < b.length

\* the comparator of matches.sort: ascending index, then descending length
matchBefore(a, b) ==
  IF a.index # b.index THEN a.index < b.index ELSE a.length > b.length

RECURSIVE insertMatch(_, _)
insertMatch(sorted, m) ==
  IF sorted = <<>> THEN <<m>>
  ELSE IF matchBefore(m, Head(sorted))
       THEN <<m>> \o sorted
       ELSE <<Head(sorted)>> \o insertMatch(Tail(sorted), m)

RECURSIVE sortMatchesFrom(_, _)
sortMatchesFrom(ms, acc) ==
  IF ms = <<>> THEN acc
  ELSE sortMatchesFrom(Tail(ms), insertMatch(acc, Head(ms)))

\* matches.sort(...)
sortMatches(ms) == sortMatchesFrom(ms, <<>>)

\* the overlap test without its first alternative
overlapsExistingFromLeft(match, existing) ==
  match.index + match.length > existing.index /\ match.index < existing.index

\* the overlap test of finalMatches.some / finalMatches.find
overlapsExisting(match, existing) ==
  \/ (match.index >= existing.index /\ match.index < existing.index + existing.length)
  \/ (match.index + match.length > existing.index /\ match.index < existing.index)

\* part_002: keep a match only if it overlaps no match kept before it
RECURSIVE finalMatches002(_, _)
finalMatches002(ms, final) ==
  IF ms = <<>> THEN final
  ELSE LET match == Head(ms)
           hasOverlap == \E k \in 1..Len(final) : overlapsExisting(match, final[k])
       IN finalMatches002(Tail(ms),
            IF ~hasOverlap
            THEN Append(final, [index |-> match.index, length |-> match.length,
                                word |-> match.word, level |-> match.level,
                                overlapping |-> <<match>>])
            ELSE final)

\* main.ts: add a match to the first group whose head it overlaps, else
\* open a new group headed by it
RECURSIVE finalMatchesMain(_, _)
finalMatchesMain(ms, final) ==
  IF ms = <<>> THEN final
  ELSE LET match == Head(ms)
           found == {k \in 1..Len(final) : overlapsExisting(match, final[k])}
       IN finalMatchesMain(Tail(ms),
            IF found # {}
            THEN LET g == CHOOSE k \in found : \A j \in found : k <= j
                 IN [final EXCEPT ![g].overlapping = Append(@, match)]
            ELSE Append(final, [index |-> match.index, length |-> match.length,
                                word |-> match.word, level |-> match.level,
                                overlapping |-> <<match>>]))

finalMatchesOf(script, sorted) ==
  IF script = "part_002" THEN finalMatches002(sorted, <<>>)
  ELSE finalMatchesMain(sorted, <<>>)

(***************************************************************************)
(* processBatch: the vertical levels of a group's underlines (main.ts)     *)
(***************************************************************************)
\* an overlap test that only sees matches starting at the same offset
rangesIntersectAtStart(m, other) == m.index = other.index

\* !(mEnd <= other.index || m.index >= otherEnd)
rangesIntersect(m, other) ==
  ~(m.index + Len(m.word) <= other.index \/ m.index >= other.index + Len(other.word))

\* a level of its own for every member
ownLevel(overlapping, levels, idx, level) == idx - 1

\* while (true) { ... level++ }: the lowest level, from `level` on, on
\* which no earlier member overlaps the member at idx
RECURSIVE lowestFreeLevel(_, _, _, _)
lowestFreeLevel(overlapping, levels, idx, level) ==
  LET hasOverlap == \E i \in 1..(idx - 1) :
                      /\ levels[i] = level
                      /\ rangesIntersect(overlapping[idx], overlapping[i])
  IN IF ~hasOverlap THEN level
     ELSE lowestFreeLevel(overlapping, levels, idx, level + 1)

\* match.overlapping.forEach((m, idx) => { ... levels[idx] = level })
RECURSIVE assignLevels(_, _)
assignLevels(overlapping, levels) ==
  IF Len(levels) = Len(overlapping) THEN levels
  ELSE assignLevels(overlapping,
         Append(levels, lowestFreeLevel(overlapping, levels, Len(levels) + 1, 0)))

\* const levels: number[] after the loop
levelsOf(overlapping) == assignLevels(overlapping, <<>>)

\* the underline of the member m of the group of match: leftPercent is
\* (relativeStart / totalLength) * 100 and widthPercent is
\* (matchLength / totalLength) * 100, kept as the exact fractions
\* left / totalLength and width / totalLength
underlineOf(match, m, level) ==
  [left |-> (m.index - match.index) * 100,
   width |-> Len(m.word) * 100,
   totalLength |-> Len(match.word),
   level |-> level]

\* match.overlapping.forEach((m, idx) => ...): the underlines of a span
underlinesOf(match) ==
  [idx \in 1..Len(match.overlapping) |->
     underlineOf(match, match.overlapping[idx], levelsOf(match.overlapping)[idx])]

(***************************************************************************)
(* processBatch: the replacement fragment                                  *)
(***************************************************************************)
\* the last member of a group in place of its first
primaryOfLast(match) == match.overlapping[Len(match.overlapping)]

\* match.overlapping[0]: the member whose level colours the background
\* (in part_002 the match itself)
primaryOf(match) == match.overlapping[1]

\* the colour computed for the background-color of the span of a match
spanBackground(match) == getDifficultyColor(primaryOf(match).level)

\* the background colours of the spans of a fragment, in order
spanBackgrounds(final) == [g \in 1..Len(final) |-> spanBackground(final[g])]

\* the loop over finalMatches; a piece is a text node or a highlight span
RECURSIVE fragmentLoop(_, _, _, _)
fragmentLoop(text, final, lastIndex, pieces) ==
  IF final = <<>>
  THEN IF lastIndex < Len(text)
       THEN Append(pieces, [kind |-> "text",
                            text |-> substring(text, lastIndex, Len(text))])
       ELSE pieces
  ELSE LET match == Head(final)
           before == IF match.index > lastIndex
                     THEN Append(pieces, [kind |-> "text",
                                          text |-> substring(text, lastIndex, match.index)])
                     ELSE pieces
       IN fragmentLoop(text, Tail(final), match.index + match.length,
                       Append(before, [kind |-> "span", text |-> match.word]))

buildFragment(text, final) == fragmentLoop(text, final, 0, <<>>)

\* a loop body without its two `continue` statements: every node gets a
\* fragment
renderAlways(script, text, sortedWords) ==
  buildFragment(text, finalMatchesOf(script, sortMatches(findMatches(script, text, sortedWords))))

\* what processBatch does with one text node: the fragment that replaces
\* it, or <<>> when the node is left alone
renderUnit(script, text, sortedWords) ==
  IF isBlank(text) THEN <<>>
  ELSE LET matches == findMatches(script, text, sortedWords)
       IN IF matches = <<>> THEN <<>>
          ELSE LET final == finalMatchesOf(script, sortMatches(matches))
               IN IF final = <<>> THEN <<>> ELSE buildFragment(text, final)

(***************************************************************************)
(* The document                                                            *)
(***************************************************************************)
\* a text node: its text, the tagName of its parent element, whether the
\* parent carries the 'anki-highlight' class, whether it is in the
\* document, and which pass created it (0: the page)
mkNode(text, tag, marked, origin) ==
  [text |-> text, tag |-> tag, marked |-> marked, attached |-> TRUE,
   origin |-> origin]

\* the tag names acceptNode rejects
ExcludedTags == {"SCRIPT", "STYLE", "TEXTAREA", "INPUT", "NOSCRIPT"}

\* a filter without the test of the 'anki-highlight' class
acceptHighlighted(node) ==
  IF ~node.attached THEN FALSE
  ELSE IF node.tag \in ExcludedTags THEN FALSE
  ELSE TRUE

\* acceptNode of the TreeWalker: FILTER_ACCEPT or FILTER_REJECT
acceptNode(node) ==
  IF ~node.attached THEN FALSE
  ELSE IF node.tag \in ExcludedTags THEN FALSE
  ELSE IF node.marked THEN FALSE
  ELSE TRUE

\* while ((node = walker.nextNode())) textNodes.push(node)
walkTextNodes(ns, bd) ==
  LET accepted(id) == acceptNode(ns[id]) IN SelectSeq(bd, accepted)

\* a span piece whose span does not get the 'anki-highlight' class
pieceUnclassed(piece, tag, marked, origin) ==
  IF piece.kind = "span" THEN mkNode(piece.text, "SPAN", FALSE, origin)
  ELSE mkNode(piece.text, tag, marked, origin)

\* the text nodes a fragment piece puts in the document, in place of a node
\* whose parent is (tag, marked): a plain piece stays under that parent, a
\* span piece is a text node under a new span.anki-highlight
pieceNode(piece, tag, marked, origin) ==
  IF piece.kind = "span" THEN mkNode(piece.text, "SPAN", TRUE, origin)
  ELSE mkNode(piece.text, tag, marked, origin)

RECURSIVE pieceNodes(_, _, _, _)
pieceNodes(pieces, tag, marked, origin) ==
  IF pieces = <<>> THEN <<>>
  ELSE <<pieceNode(Head(pieces), tag, marked, origin)>>
       \o pieceNodes(Tail(pieces), tag, marked, origin)

\* the position of id in the document order
positionOf(bd, id) == CHOOSE i \in 1..Len(bd) : bd[i] = id

\* textNode.parentNode?.replaceChild(fragment, textNode)
replaceChild(d, id, pieces, origin) ==
  IF ~d.nodes[id].attached THEN [d EXCEPT !.metRemoved = TRUE]
  ELSE LET fresh == pieceNodes(pieces, d.nodes[id].tag, d.nodes[id].marked, origin)
           first == Len(d.nodes)
           ids == [i \in 1..Len(fresh) |-> first + i]
           at == positionOf(d.body, id)
       IN [d EXCEPT
             !.nodes = [@ EXCEPT ![id].attached = FALSE] \o fresh,
             !.body = SubSeq(@, 1, at - 1) \o ids \o SubSeq(@, at + 1, Len(@)),
             !.changed = TRUE,
             !.retouched = @ \/ d.nodes[id].origin # 0,
             !.nested = @ \/ (d.nodes[id].marked
                              /\ \E i \in 1..Len(pieces) : pieces[i].kind = "span")]

\* the body of the for loop of processBatch for the text node id
visitUnit(script, d, id, sortedWords, origin) ==
  LET text == d.nodes[id].text
  IN IF isBlank(text) THEN d
     ELSE LET pieces == renderUnit(script, text, sortedWords)
              seen == [d EXCEPT !.excludedMatched =
                         @ \/ d.nodes[id].tag \in ExcludedTags \/ d.nodes[id].marked]
          IN IF pieces = <<>> THEN seen
             ELSE replaceChild(seen, id, pieces, origin)

RECURSIVE visitLoop(_, _, _, _, _)
visitLoop(script, d, ids, sortedWords, origin) ==
  IF ids = <<>> THEN d
  ELSE visitLoop(script, visitUnit(script, d, Head(ids), sortedWords, origin),
                 Tail(ids), sortedWords, origin)

\* the for loop over the units ids; a unit whose text is blank when the
\* batch begins only runs the `continue` of visitUnit and is passed over
\* here (no unit's text changes during a batch)
visitUnits(script, d, ids, sortedWords, origin) ==
  LET hasText(id) == ~isBlank(d.nodes[id].text)
  IN visitLoop(script, d, SelectSeq(ids, hasText), sortedWords, origin)

(***************************************************************************)
(* State                                                                   *)
(***************************************************************************)
VARIABLES
  script,          \* which revision of the content script runs
  boot,            \* "requested": getWords sent; "scheduled": the first
                   \* highlightWords(false) is queued; "called"; "failed"
  wordsMap,        \* the mapping, in Map insertion order
  isHighlighting,  \* the running flag
  mutationTimeout, \* the id of the debounce timer, 0 for null
  timers,          \* the pending setTimeout timers: [id, left]
  nodes,           \* every text node ever created, by id
  body,            \* the ids of the text nodes under document.body, in order
  passes,          \* the highlightWords closures whose processBatch chain
                   \* has not reached the end of its list
  records,         \* MutationRecords queued for the observer
  mutations,       \* how many mutations the page has made
  walks,           \* how many passes have enumerated text nodes
  hist,            \* what has happened to passes and units so far
  deb,             \* what has happened to the debounce timer so far
  unit,            \* the matching specification: one unit and its rendering
  color,           \* the colour specification: one level and its colour
  score,           \* the score specification: one card and its difficulty
  batch,           \* the batch specification: the loop of one pass
  trip,            \* the store specification: a save and a load
  deckName,        \* storage.local: the deck name, empty if not set
  popup,           \* the popup: where its Save handler is
  cachedWords,     \* background: the in-memory mapping, or null
  isSyncing,       \* background: the flag of syncWithAnki
  store,           \* background: the records of the IndexedDB object store
  dbQueue,         \* background: the transactions created and not yet over
  syncs,           \* background: the syncWithAnki calls past their guard
  requests,        \* background: the messages received and their responses
  startup,         \* background: where the start-up chain of promises is
  now,             \* the clock, in hours
  intervalDue,     \* when the setInterval timer fires next, -1 if not set
  bgHist           \* what has happened to syncs and responses so far

\* the state of the background script
bgVars == <<cachedWords, isSyncing, store, dbQueue, syncs, requests, startup,
            now, intervalDue, bgHist>>

\* the state outside the highlighter of a page
\* the popup and the storage it writes
popupVars == <<deckName, popup>>

otherVars == <<color, score, batch, trip, popupVars, bgVars>>

vars == <<script, boot, wordsMap, isHighlighting, mutationTimeout, timers,
          nodes, body, passes, records, mutations, walks, hist, deb, unit,
          otherVars>>

(***************************************************************************)
(* highlightWords and processBatch                                         *)
(***************************************************************************)
\* The content-script state the two functions read and write, as a record.
current ==
  [isHighlighting |-> isHighlighting, nodes |-> nodes, body |-> body,
   passes |-> passes, records |-> records, walks |-> walks, hist |-> hist]

removeAt(seq, i) == SubSeq(seq, 1, i - 1) \o SubSeq(seq, i + 1, Len(seq))

\* how many units of a batch of n units are visited before
\* performance.now() >= deadline stops the loop: the first check comes
\* right after the deadline is set, every later one after a unit of work
visitCounts(n) == IF n = 0 THEN {0} ELSE 1..n

\* a flag that stays set when the walk found no text node
flagKeptOnEmpty(p, flag) == IF Len(p.textNodes) = 0 THEN flag ELSE FALSE

\* isHighlighting = false, at the end of the list of the pass p
flagAfterPass(p, flag) == FALSE

\* processBatch of the pass at position pi, visiting k units before the
\* loop ends or breaks
processBatch(scr, cs, pi, k) ==
  LET p == cs.passes[pi]
      end == Min(p.processed + batchSize, Len(p.textNodes))
      d0 == [nodes |-> cs.nodes, body |-> cs.body, changed |-> FALSE,
             retouched |-> FALSE, excludedMatched |-> FALSE,
             metRemoved |-> FALSE, nested |-> FALSE]
      d == visitUnits(scr, d0, SubSeq(p.textNodes, p.processed + 1, p.processed + k),
                      p.sortedWords, p.number)
      skipped == p.skipped \/ (p.processed + k < end)
      metRemoved == p.metRemoved \/ d.metRemoved
      h0 == [cs.hist EXCEPT
               !.removedThenSkipped = @ \/ (metRemoved /\ p.processed + k < end),
               !.excludedMatched = @ \/ d.excludedMatched,
               !.nested = @ \/ d.nested,
               !.retouchedLate = @ \/ (p.late /\ d.retouched),
               !.laterReplaced = @ \/ (p.number > 1 /\ d.changed)]
      recs == IF d.changed
              THEN Append(cs.records, [elem |-> TRUE, by |-> "self", node |-> 0])
              ELSE cs.records
  IN IF end < Len(p.textNodes)
     THEN \* requestIdleCallback(processBatch, { timeout: 1000 })
          [cs EXCEPT !.nodes = d.nodes, !.body = d.body, !.records = recs,
                     !.hist = h0,
                     !.passes = [@ EXCEPT ![pi].processed = end,
                                          ![pi].skipped = skipped,
                                          ![pi].metRemoved = metRemoved]]
     ELSE [cs EXCEPT !.nodes = d.nodes, !.body = d.body, !.records = recs,
                     !.hist = [h0 EXCEPT !.incomplete = @ \/ skipped],
                     !.passes = removeAt(@, pi),
                     !.isHighlighting = flagAfterPass(p, @)]

\* the size of the first batch of a pass over the current document
firstBatch(cs) == Min(batchSize, Len(walkTextNodes(cs.nodes, cs.body)))

\* highlightWords(skipCheck), its first processBatch() visiting k units
highlightWords(scr, map, cs, skipCheck, k) ==
  IF cs.isHighlighting \/ Len(map) = 0 THEN cs
  ELSE LET p == [textNodes |-> walkTextNodes(cs.nodes, cs.body),
                 processed |-> 0,
                 sortedWords |-> sortedWordsOf(map),
                 number |-> cs.walks + 1,
                 initial |-> ~skipCheck,
                 late |-> cs.hist.late # {},
                 skipped |-> FALSE,
                 metRemoved |-> FALSE]
           started == [cs EXCEPT
                         !.isHighlighting = IF ~skipCheck THEN TRUE ELSE @,
                         !.passes = Append(@, p),
                         !.walks = @ + 1,
                         !.hist = [@ EXCEPT !.lost = FALSE]]
       IN processBatch(scr, started, Len(started.passes), k)

\* whether highlightWords would start a pass
wouldStart(map, cs) == ~(cs.isHighlighting \/ Len(map) = 0)

\* the visit counts to choose from for a call of highlightWords
startCounts(map, cs) ==
  IF wouldStart(map, cs) THEN visitCounts(firstBatch(cs)) ELSE {0}

\* write the record back to the variables
Becomes(cs) ==
  /\ isHighlighting' = cs.isHighlighting
  /\ nodes' = cs.nodes
  /\ body' = cs.body
  /\ passes' = cs.passes
  /\ records' = cs.records
  /\ walks' = cs.walks
  /\ hist' = cs.hist

(***************************************************************************)
(* Documents and mappings                                                  *)
(***************************************************************************)
tABCD == <<"a", "b", "c", "d">>
tAB == <<"a", "b">>
tD == <<"d">>
tSpace == <<" ">>

\* whitespace-only text nodes, as the ones between the elements of a page
whitespaceNodes(n) == [i \in 1..n |-> mkNode(tSpace, "DIV", FALSE, 0)]

\* a page with two prose units around a script
SmallDocument ==
  <<mkNode(tABCD, "DIV", FALSE, 0), mkNode(tAB, "SCRIPT", FALSE, 0),
    mkNode(tD, "DIV", FALSE, 0)>>

\* a page with more text nodes than one batch holds: prose, the whitespace
\* between elements, prose
LargeDocument ==
  <<mkNode(tABCD, "DIV", FALSE, 0)>> \o whitespaceNodes(batchSize - 1)
  \o <<mkNode(tD, "DIV", FALSE, 0)>>

\* a page whose second batch holds two prose units
LongDocument ==
  <<mkNode(tABCD, "DIV", FALSE, 0)>> \o whitespaceNodes(batchSize - 1)
  \o <<mkNode(tD, "DIV", FALSE, 0), mkNode(tAB, "DIV", FALSE, 0)>>

\* a page without a text node the walk accepts
ScriptDocument == <<mkNode(tAB, "SCRIPT", FALSE, 0)>>

Documents == {SmallDocument, LargeDocument, LongDocument, ScriptDocument}

\* what the background script answers to getWords: response.words
Mapping == <<[word |-> <<"b", "c", "d">>, level |-> 20],
             [word |-> tAB, level |-> 90],
             [word |-> tD, level |-> 50]>>

Mappings == {Mapping, <<[word |-> tAB, level |-> 90]>>, <<>>}

\* the texts of the elements the page inserts
InsertTexts == {tAB}

\* where the page moves a text node to
MoveTags == {"TEXTAREA"}

Scripts == {"part_002", "main"}

\* a pass over no text node whose processBatch has not been called
NoBatch == [length |-> 0, processed |-> 0, pc |-> "scheduled", i |-> 0, end |-> 0,
            elapsed |-> 0, batches |-> 0]

\* an empty store on which nothing has been saved or loaded
NoTrip == [m |-> <<>>, t |-> 0, st |-> {}, pc |-> "start",
           result |-> [null |-> TRUE, entries |-> <<>>]]

\* no card has been scored
NoScore == [card |-> [expression |-> <<>>, interval |-> 0, lapses |-> 0, reps |-> 0],
            done |-> FALSE, level |-> 0]

\* let cachedWords: Map<string, { difficultyLevel: number }> | null = null
Null == [null |-> TRUE, entries |-> <<>>]

\* a Map, its entries in insertion order
MapOf(entries) == [null |-> FALSE, entries |-> entries]

\* the clock when the background script is first started; Date.now() is
\* never 0
StartHour == 1

\* the start-up chain db.init().then(async () => ...) before db.init settles
NoStartup == [pc |-> "init"]

\* the popup before Save is clicked
NoPopup == [pc |-> "idle", name |-> <<>>, request |-> 0]

\* nothing has happened to a sync or a response yet
NoBgHist ==
  [started |-> 0, restarts |-> 0, messages |-> 0,
   prior |-> [set |-> FALSE, cached |-> FALSE, entries |-> <<>>, stored |-> {}],
   answeredOther |-> FALSE, failed |-> {}, startupDue |-> "unchecked",
   synced |-> {}]

\* the background script as its module is evaluated, on an empty object store
BackgroundStarting ==
  /\ cachedWords = Null
  /\ isSyncing = FALSE
  /\ store = {}
  /\ dbQueue = <<>>
  /\ deckName = <<>>
  /\ popup = NoPopup
  /\ syncs = <<>>
  /\ requests = <<>>
  /\ startup = NoStartup
  /\ now = StartHour
  /\ intervalDue = -1
  /\ bgHist = NoBgHist

NoColor == [level |-> 0, done |-> FALSE, rgb |-> [red |-> 0, green |-> 0, blue |-> 0]]

NoUnit == [text |-> <<>>, words |-> <<>>, script |-> "none", done |-> FALSE,
           matches |-> <<>>, pieces |-> <<>>, backgrounds |-> <<>>]

(***************************************************************************)
(* Initial state: main() has run, getWords is in flight, the observer is   *)
(* installed                                                               *)
(***************************************************************************)
Init ==
  /\ script \in Scripts
  /\ boot = "requested"
  /\ wordsMap = <<>>
  /\ isHighlighting = FALSE
  /\ mutationTimeout = 0
  /\ timers = {}
  /\ nodes \in Documents
  /\ body = [i \in 1..Len(nodes) |-> i]
  /\ passes = <<>>
  /\ records = <<>>
  /\ mutations = 0
  /\ walks = 0
  /\ hist = [incomplete |-> FALSE, lost |-> FALSE, late |-> {},
             retouchedLate |-> FALSE, laterReplaced |-> FALSE,
             excludedMatched |-> FALSE, removedThenSkipped |-> FALSE,
             nested |-> FALSE]
  /\ deb = [sinceSignal |-> 0, ignored |-> FALSE, armed |-> FALSE, calls |-> 0,
            signals |-> 0, lastDelay |-> -1, lastClean |-> FALSE,
            lastSignals |-> 0]
  /\ unit = NoUnit
  /\ color = NoColor
  /\ score = NoScore
  /\ batch = NoBatch
  /\ trip = NoTrip
  /\ BackgroundStarting

\* MutationObserver callbacks are microtasks: they run before the next task
NoMicrotask == records = <<>>

(***************************************************************************)
(* Start-up                                                                *)
(***************************************************************************)
\* sendMessage({ action: 'getWords' }).then(...) with response.words
GetWordsResponse ==
  /\ NoMicrotask
  /\ boot = "requested"
  /\ \E m \in Mappings : wordsMap' = m
  /\ boot' = "scheduled"
  /\ UNCHANGED <<script, isHighlighting, mutationTimeout, timers, nodes, body,
                 passes, records, mutations, walks, hist, deb, unit>>
  /\ UNCHANGED otherVars

\* no response, or a response without words, or the promise rejects
GetWordsFailure ==
  /\ NoMicrotask
  /\ boot = "requested"
  /\ boot' = "failed"
  /\ UNCHANGED <<script, wordsMap, isHighlighting, mutationTimeout, timers,
                 nodes, body, passes, records, mutations, walks, hist, deb, unit>>
  /\ UNCHANGED otherVars

\* the DOMContentLoaded listener or the idle callback: highlightWords(false)
InitialHighlight ==
  /\ NoMicrotask
  /\ boot = "scheduled"
  /\ Len(passes) < MaxActive
  /\ boot' = "called"
  /\ \E k \in startCounts(wordsMap, current) :
       Becomes(highlightWords(script, wordsMap, current, FALSE, k))
  /\ UNCHANGED <<script, wordsMap, mutationTimeout, timers, mutations, deb, unit>>
  /\ UNCHANGED otherVars

(***************************************************************************)
(* Batches                                                                 *)
(***************************************************************************)
\* the idle or animation-frame callback of a pass: processBatch
BatchCallback ==
  /\ NoMicrotask
  /\ \E pi \in 1..Len(passes) :
       LET p == passes[pi]
           n == Min(p.processed + batchSize, Len(p.textNodes)) - p.processed
       IN \E k \in visitCounts(n) : Becomes(processBatch(script, current, pi, k))
  /\ UNCHANGED <<script, boot, wordsMap, mutationTimeout, timers, mutations,
                 deb, unit>>
  /\ UNCHANGED otherVars

(***************************************************************************)
(* The MutationObserver and its debounce timer                             *)
(***************************************************************************)
\* a clearTimeout that leaves the timer pending
clearTimeoutNot(ts, id) == ts

\* clearTimeout(id)
clearTimeout(ts, id) == {t \in ts : t.id # id}

\* setTimeout(callback, 300): the new timer
newTimer(ts) ==
  LET used == {t.id : t \in ts}
      free == (1..(Cardinality(ts) + 1)) \ used
  IN [id |-> CHOOSE i \in free : \A j \in free : i <= j, left |-> DebounceMs]

\* a callback that takes every mutation record for a reason to highlight
shouldHighlightAlways(recs) == recs # <<>>

\* let shouldHighlight: some record has an element among its addedNodes
shouldHighlight(recs) == \E i \in 1..Len(recs) : recs[i].elem

\* new MutationObserver((mutations) => { ... })
ObserverCallback ==
  /\ records # <<>>
  /\ records' = <<>>
  /\ LET pageNodes == {records[i].node : i \in {j \in 1..Len(records) :
                          records[j].elem /\ records[j].by = "page"}}
     IN IF shouldHighlight(records) /\ ~isHighlighting
        THEN LET cleared == IF mutationTimeout # 0
                            THEN clearTimeout(timers, mutationTimeout)
                            ELSE timers
                 t == newTimer(cleared)
             IN /\ timers' = cleared \cup {t}
                /\ mutationTimeout' = t.id
                /\ deb' = [deb EXCEPT !.sinceSignal = 0, !.ignored = FALSE,
                                      !.armed = TRUE, !.calls = 0,
                                      !.signals = IF cleared # timers
                                                  THEN Min(2, @ + 1) ELSE 1]
                /\ hist' = hist
        ELSE /\ UNCHANGED <<timers, mutationTimeout>>
             /\ deb' = IF shouldHighlight(records)
                       THEN [deb EXCEPT !.sinceSignal = 0, !.ignored = TRUE]
                       ELSE deb
             /\ hist' = IF shouldHighlight(records) /\ pageNodes # {}
                        THEN [hist EXCEPT !.lost = TRUE]
                        ELSE hist
  /\ UNCHANGED <<script, boot, wordsMap, isHighlighting, nodes, body, passes,
                 mutations, walks, unit>>
  /\ UNCHANGED otherVars

\* the timer callback: highlightWords(true); mutationTimeout = null
DebounceTimeout ==
  /\ NoMicrotask
  /\ Len(passes) < MaxActive
  /\ \E t \in timers :
       /\ t.left = 0
       /\ timers' = timers \ {t}
  /\ \E k \in startCounts(wordsMap, current) :
       Becomes(highlightWords(script, wordsMap, current, TRUE, k))
  /\ mutationTimeout' = 0
  /\ deb' = [deb EXCEPT !.calls = @ + 1, !.lastDelay = deb.sinceSignal,
                        !.lastClean = ~deb.ignored,
                        !.lastSignals = deb.signals]
  /\ UNCHANGED <<script, boot, wordsMap, mutations, unit>>
  /\ UNCHANGED otherVars

\* time passes, up to the next timer's expiry
Tick ==
  /\ NoMicrotask
  /\ timers # {}
  /\ \A t \in timers : t.left > 0
  /\ LET least == CHOOSE x \in {t.left : t \in timers} :
                    \A t \in timers : x <= t.left
         d == Min(TickMs, least)
     IN /\ timers' = {[t EXCEPT !.left = @ - d] : t \in timers}
        /\ deb' = [deb EXCEPT !.sinceSignal = Min(DebounceMs, @ + d)]
  /\ UNCHANGED <<script, boot, wordsMap, isHighlighting, mutationTimeout, nodes,
                 body, passes, records, mutations, walks, hist, unit>>
  /\ UNCHANGED otherVars

(***************************************************************************)
(* The host page                                                           *)
(***************************************************************************)
\* the text nodes of the document the page acts on
pageTargets == {body[i] : i \in {j \in 1..Len(body) : ~isBlank(nodes[body[j]].text)}}

\* the initial pass has been started and has come to its end
initialDone ==
  /\ boot = "called"
  /\ ~isHighlighting
  /\ \A i \in 1..Len(passes) : ~passes[i].initial

\* body.appendChild(element) of a new element that holds text
PageInsertElement ==
  /\ NoMicrotask
  /\ mutations < MaxMutations
  /\ mutations' = mutations + 1
  /\ \E t \in InsertTexts :
       LET id == Len(nodes) + 1
       IN /\ nodes' = Append(nodes, mkNode(t, "DIV", FALSE, 0))
          /\ body' = Append(body, id)
          /\ records' = Append(records, [elem |-> TRUE, by |-> "page", node |-> id])
          /\ hist' = IF initialDone /\ walks > 0
                     THEN [hist EXCEPT !.late = @ \cup {id}]
                     ELSE hist
  /\ UNCHANGED <<script, boot, wordsMap, isHighlighting, mutationTimeout,
                 timers, passes, walks, deb, unit>>
  /\ UNCHANGED otherVars

\* element.appendChild(document.createTextNode(t)) on an existing element
PageInsertText ==
  /\ NoMicrotask
  /\ mutations < MaxMutations
  /\ mutations' = mutations + 1
  /\ \E t \in InsertTexts :
       LET id == Len(nodes) + 1
       IN /\ nodes' = Append(nodes, mkNode(t, "DIV", FALSE, 0))
          /\ body' = Append(body, id)
          /\ records' = Append(records, [elem |-> FALSE, by |-> "page", node |-> id])
  /\ UNCHANGED <<script, boot, wordsMap, isHighlighting, mutationTimeout,
                 timers, passes, walks, hist, deb, unit>>
  /\ UNCHANGED otherVars

\* the page removes a text node (or the element that holds it)
PageRemove ==
  /\ NoMicrotask
  /\ mutations < MaxMutations
  /\ mutations' = mutations + 1
  /\ \E id \in pageTargets :
       /\ nodes' = [nodes EXCEPT ![id].attached = FALSE]
       /\ body' = removeAt(body, positionOf(body, id))
       /\ records' = Append(records, [elem |-> FALSE, by |-> "page", node |-> id])
  /\ UNCHANGED <<script, boot, wordsMap, isHighlighting, mutationTimeout,
                 timers, passes, walks, hist, deb, unit>>
  /\ UNCHANGED otherVars

\* the page moves a text node into another element: target.appendChild(text)
PageMove ==
  /\ NoMicrotask
  /\ mutations < MaxMutations
  /\ mutations' = mutations + 1
  /\ \E id \in pageTargets, tag \in MoveTags :
       /\ nodes[id].tag # tag
       /\ nodes' = [nodes EXCEPT ![id].tag = tag, ![id].marked = FALSE]
       /\ body' = Append(removeAt(body, positionOf(body, id)), id)
       /\ records' = Append(records, [elem |-> FALSE, by |-> "page", node |-> id])
  /\ UNCHANGED <<script, boot, wordsMap, isHighlighting, mutationTimeout,
                 timers, passes, walks, hist, deb, unit>>
  /\ UNCHANGED otherVars

Next ==
  \/ GetWordsResponse
  \/ GetWordsFailure
  \/ InitialHighlight
  \/ BatchCallback
  \/ ObserverCallback
  \/ DebounceTimeout
  \/ Tick
  \/ PageInsertElement
  \/ PageInsertText
  \/ PageRemove
  \/ PageMove

Spec == Init /\ [][Next]_vars

\* nothing is scheduled: no batch, no timer, no observer callback, and the
\* start-up has run
Quiescent ==
  /\ boot \in {"called", "failed"}
  /\ passes = <<>>
  /\ timers = {}
  /\ records = <<>>

TypeOK ==
  /\ script \in Scripts
  /\ boot \in {"requested", "scheduled", "called", "failed"}
  /\ isHighlighting \in BOOLEAN
  /\ mutationTimeout \in Nat
  /\ \A t \in timers : t.left \in 0..DebounceMs
  /\ \A i \in 1..Len(body) : nodes[body[i]].attached
  /\ Len(passes) <= MaxActive
  /\ mutations \in 0..MaxMutations

(***************************************************************************)
(* Properties of the scheduler                                             *)
(***************************************************************************)
\* the text of the node contains a word of the mapping
hasWord(id) == \E j \in 1..Len(wordsMap) : includes(nodes[id].text, wordsMap[j].word)

\* every eligible text node of the document is free of mapping words
AllDecorated ==
  \A i \in 1..Len(body) : acceptNode(nodes[body[i]]) => ~hasWord(body[i])

\* C1: at most one highlighting pass is in progress at any time: between a
\* pass's enumeration of the text nodes and the end of its processBatch
\* chain no other highlightWords call enumerates or processes text nodes.
C1_OnePassAtATime == Len(passes) <= 1

\* C2: an element insertion by the page that is observed while a pass is
\* running is not lost: once nothing is scheduled any more, a pass has been
\* started after it.
C2_MutationNotLost == Quiescent => ~hist.lost

\* C3: every pass that has ended has visited every text node its walk
\* enumerated; the units a batch leaves when its budget runs out are
\* visited by a later batch.
C3_EveryUnitVisited == ~hist.incomplete

\* C4: when nothing is scheduled any more (no pass, no timer, no observer
\* callback), every eligible text node is free of mapping words.
C4_Converges == Quiescent => AllDecorated

\* C5: an element inserted after the initial pass has completed is
\* decorated by the debounced rerun once nothing is scheduled any more,
\* and a pass started after the insertion replaces no text node that an
\* earlier pass produced.
C5_RerunDecoratesNewText ==
  /\ Quiescent =>
       \A id \in hist.late : acceptNode(nodes[id]) => ~hasWord(id)
  /\ ~hist.retouchedLate

\* C6: without a mutation by the page, and with every pass having visited
\* all of its units, only the first pass replaces text nodes: a second
\* pass changes nothing.
C6_SecondPassChangesNothing ==
  (mutations = 0 /\ ~hist.incomplete) => ~hist.laterReplaced

\* C8: no pass runs the match step on, or replaces, a text node whose
\* parent is SCRIPT, STYLE, TEXTAREA, INPUT or NOSCRIPT or carries the
\* 'anki-highlight' class at the time the unit is processed.
C8_ExcludedNeverMatched == ~hist.excludedMatched

\* C7: a burst of element-insertion signals none of which finds the
\* running flag set leads to exactly one highlightWords call, made 300 ms
\* after the last signal of the burst, and at most one debounce timer is
\* pending at any time.
C7_DebounceOneCall ==
  /\ Cardinality(timers) <= 1
  /\ deb.calls <= 1
  /\ deb.armed => ((timers = {}) <=> (deb.calls = 1))
  /\ (deb.lastDelay # -1 /\ deb.lastClean) => deb.lastDelay = DebounceMs

\* a burst of two signals, the second less than 300 ms after the first,
\* has been answered by its call
C7_Witness ==
  /\ deb.lastSignals = 2
  /\ deb.lastClean
  /\ deb.lastDelay = DebounceMs
  /\ deb.calls = 1
  /\ timers = {}

(***************************************************************************)
(* The matching specification: one text unit, one mapping, rendered once   *)
(***************************************************************************)
Letters == {"a", "b"}
Characters == Letters \cup {" "}

\* the strings over cs of length n
RECURSIVE stringsOfLength(_, _)
stringsOfLength(cs, n) ==
  IF n = 0 THEN {<<>>}
  ELSE {Append(w, c) : w \in stringsOfLength(cs, n - 1), c \in cs}

stringsUpTo(cs, n) == UNION {stringsOfLength(cs, k) : k \in 0..n}

Texts == stringsUpTo(Characters, MaxLen)

\* the keys of a mapping are non-empty: fetchJapaneseCards skips a card
\* without an expression
Words == stringsUpTo(Letters, MaxLen) \ {<<>>}

\* the difficulty level of the entry at position i of a mapping
levelAt(i) == (i * 40) % 101

\* the mappings of n entries, in Map insertion order, with distinct keys
RECURSIVE mappingsOfSize(_)
mappingsOfSize(n) ==
  IF n = 0 THEN {<<>>}
  ELSE LET fresh == {mw \in mappingsOfSize(n - 1) \X Words :
                       \A i \in 1..Len(mw[1]) : mw[1][i].word # mw[2]}
       IN {Append(mw[1], [word |-> mw[2], level |-> levelAt(n)]) : mw \in fresh}

UnitMappings == UNION {mappingsOfSize(n) : n \in 1..MaxWords}

\* the characters of the two scenarios of the specification; a character
\* outside ASCII is named by its code unit
tABCAB == <<"a", "b", "c", "a", "b">>
tABC == <<"a", "b", "c">>
tCat == <<"U+732B">>
tDog == <<"U+72AC">>
tCatAndDog == <<"U+732B", "U+3068", "U+72AC">>

\* mapping {"ab":10, "abc":90} on "abcab"
ScenarioLatin ==
  <<tABCAB, <<[word |-> tAB, level |-> 10], [word |-> tABC, level |-> 90]>>>>

\* mapping {cat:80, dog:20} on "cat and dog", three characters
ScenarioKanji ==
  <<tCatAndDog, <<[word |-> tCat, level |-> 80], [word |-> tDog, level |-> 20]>>>>

\* the pairs of a text and a mapping a unit is rendered for
UnitInputs == (Texts \X UnitMappings) \cup {ScenarioLatin, ScenarioKanji}

InitMatch ==
  /\ boot = "requested"
  /\ wordsMap = <<>>
  /\ isHighlighting = FALSE
  /\ mutationTimeout = 0
  /\ timers = {}
  /\ nodes = SmallDocument
  /\ body = [i \in 1..Len(nodes) |-> i]
  /\ passes = <<>>
  /\ records = <<>>
  /\ mutations = 0
  /\ walks = 0
  /\ hist = [incomplete |-> FALSE, lost |-> FALSE, late |-> {},
             retouchedLate |-> FALSE, laterReplaced |-> FALSE,
             excludedMatched |-> FALSE, removedThenSkipped |-> FALSE,
             nested |-> FALSE]
  /\ deb = [sinceSignal |-> 0, ignored |-> FALSE, armed |-> FALSE, calls |-> 0,
            signals |-> 0, lastDelay |-> -1, lastClean |-> FALSE,
            lastSignals |-> 0]
  /\ color = NoColor
  /\ score = NoScore
  /\ batch = NoBatch
  /\ trip = NoTrip
  /\ BackgroundStarting
  /\ script \in Scripts
  /\ \E tm \in UnitInputs :
       unit = [text |-> tm[1], words |-> tm[2], script |-> script, done |-> FALSE,
               matches |-> <<>>, pieces |-> <<>>, backgrounds |-> <<>>]

\* the body of the for loop of processBatch for the unit
RenderUnit ==
  /\ ~unit.done
  /\ LET matches == IF isBlank(unit.text) THEN <<>>
                    ELSE findMatches(unit.script, unit.text,
                                     sortedWordsOf(unit.words))
     IN unit' = [unit EXCEPT
                   !.done = TRUE,
                   !.matches = matches,
                   !.pieces = renderUnit(unit.script, unit.text,
                                         sortedWordsOf(unit.words)),
                   !.backgrounds =
                     IF matches = <<>> THEN <<>>
                     ELSE spanBackgrounds(
                            finalMatchesOf(unit.script, sortMatches(matches)))]
  /\ UNCHANGED <<script, boot, wordsMap, isHighlighting, mutationTimeout,
                 timers, nodes, body, passes, records, mutations, walks,
                 hist, deb>>
  /\ UNCHANGED otherVars

NextMatch == RenderUnit

SpecMatch == InitMatch /\ [][NextMatch]_vars

\* the texts of the pieces of a fragment, in order
pieceTexts(pieces) == [i \in 1..Len(pieces) |-> pieces[i].text]

\* C9: the texts of the children of the fragment that replaces a text node
\* concatenate, in order, to the text of the node.
C9_FragmentPreservesText ==
  (unit.done /\ unit.pieces # <<>>) => concat(pieceTexts(unit.pieces)) = unit.text

\* a unit with two overlapping occurrences of mapping words, replaced by a
\* span and plain text
C9_Witness ==
  /\ unit.done
  /\ Len(unit.matches) >= 2
  /\ \E i, j \in 1..Len(unit.pieces) :
       unit.pieces[i].kind = "span" /\ unit.pieces[j].kind = "text"
  /\ \E i, j \in 1..Len(unit.matches) :
       /\ i # j
       /\ unit.matches[i].index < unit.matches[j].index + unit.matches[j].length
       /\ unit.matches[j].index < unit.matches[i].index + unit.matches[i].length

(***************************************************************************)
(* The Match Engine of part_002                                            *)
(***************************************************************************)
unitSorted == sortedWordsOf(unit.words)

\* the occurrences of the mapping's words in the unit: <<q, i>> is the
\* word at position q of the longest-first list at offset i
unitOccurrences ==
  {qi \in (1..Len(unitSorted)) \X (0..Len(unit.text)) :
     occursAt(unit.text, unitSorted[qi[1]].word, qi[2])}

\* the Match Engine reports the occurrence
reported(qi) ==
  \E k \in 1..Len(unit.matches) :
    unit.matches[k].word = unitSorted[qi[1]].word /\ unit.matches[k].index = qi[2]

\* the offset i lies in the range of the match m
covers(m, i) == m.index <= i /\ i < m.index + m.length

\* the occurrence lies outside the match m
outside(qi, m) ==
  \/ qi[2] + Len(unitSorted[qi[1]].word) <= m.index
  \/ m.index + m.length <= qi[2]

\* the match m was accepted before the occurrence qi was examined: it is
\* of a word earlier in the longest-first list, or an earlier occurrence
\* of the same word
acceptedBefore(m, qi) ==
  \/ \E q \in 1..(qi[1] - 1) : unitSorted[q].word = m.word
  \/ (m.word = unitSorted[qi[1]].word /\ m.index < qi[2])

\* the mapping holds a word longer than the one of qi
hasLongerWord(qi) ==
  \E q \in 1..Len(unitSorted) :
    Len(unitSorted[q].word) > Len(unitSorted[qi[1]].word)

\* an occurrence whose offset is covered by an accepted match of a longer
\* word is not reported
containedDropped ==
  \A qi \in unitOccurrences :
    (\E k \in 1..Len(unit.matches) :
       /\ unit.matches[k].length > Len(unitSorted[qi[1]].word)
       /\ covers(unit.matches[k], qi[2]))
    => ~reported(qi)

unitMatched == unit.done /\ unit.script = "part_002" /\ ~isBlank(unit.text)

occurrencesIntersect(qi, qj) ==
  /\ qi[2] < qj[2] + Len(unitSorted[qj[1]].word)
  /\ qj[2] < qi[2] + Len(unitSorted[qi[1]].word)

\* the occurrences of the mapping's words in the unit are pairwise
\* non-overlapping
occurrencesDisjoint ==
  \A qi, qj \in unitOccurrences : qi # qj => ~occurrencesIntersect(qi, qj)

\* C11: when the occurrences of the mapping's words in a text are pairwise
\* non-overlapping, the matching loop returns exactly one match per
\* occurrence, with index equal to the occurrence's offset, length equal
\* to the word's length, index >= 0 and index + length <= the text's
\* length.
C11_OneMatchPerOccurrence ==
  (unit.done /\ ~isBlank(unit.text) /\ occurrencesDisjoint) =>
    /\ Len(unit.matches) = Cardinality(unitOccurrences)
    /\ \A qi \in unitOccurrences : reported(qi)
    /\ \A k \in 1..Len(unit.matches) :
         /\ unit.matches[k].index >= 0
         /\ unit.matches[k].length = Len(unit.matches[k].word)
         /\ unit.matches[k].index + unit.matches[k].length <= Len(unit.text)
         /\ occursAt(unit.text, unit.matches[k].word, unit.matches[k].index)

\* a text with two occurrences of one word and one of another, all apart
\* from each other
C11_Witness ==
  /\ unit.done
  /\ occurrencesDisjoint
  /\ Len(unit.matches) >= 2
  /\ \E qi, qj \in unitOccurrences : qi[1] # qj[1]
  /\ \E qi, qj \in unitOccurrences : qi[1] = qj[1] /\ qi[2] # qj[2]

(***************************************************************************)
(* Grouping in the stacking content script (main.ts)                       *)
(***************************************************************************)
\* finalMatches of the unit: the groups, each headed by the match that
\* opened it, with its members in `overlapping`
unitGroups ==
  IF unit.matches = <<>> THEN <<>>
  ELSE finalMatchesOf(unit.script, sortMatches(unit.matches))

unitStacked == unit.done /\ unit.script = "main" /\ ~isBlank(unit.text)

\* the end offset of a match
matchEnd(m) == m.index + m.length

\* the character offsets of a match
matchRange(m) == m.index..(matchEnd(m) - 1)

\* the character ranges of two matches intersect
matchesIntersect(a, b) == a.index < matchEnd(b) /\ b.index < matchEnd(a)

\* the members of group g
membersOf(g) == {unitGroups[g].overlapping[i] : i \in 1..Len(unitGroups[g].overlapping)}

\* the groups a match is a member of
groupsOf(m) == {g \in 1..Len(unitGroups) : m \in membersOf(g)}

\* the matches of the unit
unitMatchSet == {unit.matches[k] : k \in 1..Len(unit.matches)}

\* the character offsets of the highlight element emitted for group g: it
\* starts at the head's index, shows the head's word, and the text after
\* it resumes at index + length of the head
spanRange(g) == unitGroups[g].index..(unitGroups[g].index + Len(unitGroups[g].word) - 1)

\* C12: in the stacking content script every match belongs to exactly one
\* group, the span emitted for a group runs from the least start of its
\* members to the greatest end of its members, and the union of the
\* group spans equals the union of the character ranges of all matches.
C12_GroupSpans ==
  unitStacked =>
    /\ \A m \in unitMatchSet : Cardinality(groupsOf(m)) = 1
    /\ \A g \in 1..Len(unitGroups) :
         /\ \A m \in membersOf(g) : unitGroups[g].index <= m.index
         /\ \E m \in membersOf(g) : unitGroups[g].index = m.index
         /\ \A m \in membersOf(g) :
              matchEnd(m) <= unitGroups[g].index + Len(unitGroups[g].word)
    /\ UNION {spanRange(g) : g \in 1..Len(unitGroups)}
         = UNION {matchRange(m) : m \in unitMatchSet}

\* C13: in the stacking content script, matches A, B, C with A
\* overlapping B and B overlapping C are in one group, and no member of a
\* group overlaps a member of another group.
C13_GroupingTransitive ==
  unitStacked =>
    /\ \A a, b, c \in unitMatchSet :
         (matchesIntersect(a, b) /\ matchesIntersect(b, c))
         => (groupsOf(a) = groupsOf(b) /\ groupsOf(b) = groupsOf(c))
    /\ \A g, h \in 1..Len(unitGroups) :
         g # h => \A a \in membersOf(g), b \in membersOf(h) : ~matchesIntersect(a, b)

(***************************************************************************)
(* Layers of a group (main.ts)                                             *)
(***************************************************************************)
\* the levels of the members of group g, by position in `overlapping`
groupLevels(g) == levelsOf(unitGroups[g].overlapping)

\* the members of group g whose range holds the character offset i
membersAt(g, i) ==
  {k \in 1..Len(unitGroups[g].overlapping) :
     i \in matchRange(unitGroups[g].overlapping[k])}

\* the largest number of members of group g that share a character offset
depthOf(g) ==
  LET counts == {Cardinality(membersAt(g, i)) : i \in 0..Len(unit.text)}
  IN CHOOSE n \in counts : \A c \in counts : c <= n

\* the number of distinct levels used for group g
layersOf(g) == Cardinality({groupLevels(g)[k] : k \in 1..Len(groupLevels(g))})

\* C14: no two members of a group whose character ranges intersect get
\* the same level.
C14_LayersSeparateOverlaps ==
  unitStacked =>
    \A g \in 1..Len(unitGroups) :
      \A i, j \in 1..Len(unitGroups[g].overlapping) :
        (i # j /\ matchesIntersect(unitGroups[g].overlapping[i],
                                   unitGroups[g].overlapping[j]))
        => groupLevels(g)[i] # groupLevels(g)[j]

\* a group with two members overlapping at different offsets on different
\* levels, and two members apart from each other on the same level
C14_Witness ==
  /\ unitStacked
  /\ \E g \in 1..Len(unitGroups) :
       LET ov == unitGroups[g].overlapping
       IN /\ \E i, j \in 1..Len(ov) :
               /\ ov[i].index # ov[j].index
               /\ matchesIntersect(ov[i], ov[j])
               /\ groupLevels(g)[i] # groupLevels(g)[j]
          /\ \E i, j \in 1..Len(ov) :
               /\ i # j
               /\ ~matchesIntersect(ov[i], ov[j])
               /\ groupLevels(g)[i] = groupLevels(g)[j]

\* C15: the number of distinct levels used for a group is the largest
\* number of its members that share a character offset: 1 for a group of
\* one member, 2 for a group of two overlapping members.
C15_LayersMinimal ==
  unitStacked =>
    \A g \in 1..Len(unitGroups) :
      /\ layersOf(g) = depthOf(g)
      /\ Len(unitGroups[g].overlapping) = 1 => layersOf(g) = 1
      /\ Len(unitGroups[g].overlapping) = 2 => layersOf(g) = 2

\* a group of three members on two levels
C15_Witness ==
  /\ unitStacked
  /\ \E g \in 1..Len(unitGroups) :
       /\ Len(unitGroups[g].overlapping) = 3
       /\ layersOf(g) = 2
       /\ depthOf(g) = 2

(***************************************************************************)
(* The colour specification: getDifficultyColor of one level               *)
(***************************************************************************)
\* the integer levels of the score range
Scores == 0..MaxScore

InitColor ==
  /\ script \in Scripts
  /\ boot = "requested"
  /\ wordsMap = <<>>
  /\ isHighlighting = FALSE
  /\ mutationTimeout = 0
  /\ timers = {}
  /\ nodes = SmallDocument
  /\ body = [i \in 1..Len(nodes) |-> i]
  /\ passes = <<>>
  /\ records = <<>>
  /\ mutations = 0
  /\ walks = 0
  /\ hist = [incomplete |-> FALSE, lost |-> FALSE, late |-> {},
             retouchedLate |-> FALSE, laterReplaced |-> FALSE,
             excludedMatched |-> FALSE, removedThenSkipped |-> FALSE,
             nested |-> FALSE]
  /\ deb = [sinceSignal |-> 0, ignored |-> FALSE, armed |-> FALSE, calls |-> 0,
            signals |-> 0, lastDelay |-> -1, lastClean |-> FALSE,
            lastSignals |-> 0]
  /\ unit = NoUnit
  /\ \E level \in Scores : color = [NoColor EXCEPT !.level = level]
  /\ score = NoScore
  /\ batch = NoBatch
  /\ trip = NoTrip
  /\ BackgroundStarting

\* const color = getDifficultyColor(level)
ComputeColor ==
  /\ ~color.done
  /\ color' = [color EXCEPT !.done = TRUE, !.rgb = getDifficultyColor(color.level)]
  /\ UNCHANGED <<script, boot, wordsMap, isHighlighting, mutationTimeout,
                 timers, nodes, body, passes, records, mutations, walks,
                 hist, deb, unit, score, batch, trip, popupVars, bgVars>>

NextColor == ComputeColor

SpecColor == InitColor /\ [][NextColor]_vars

\* the integer nearest to n / d, a tie going up
nearest(n, d) == (2 * n + d) \div (2 * d)

\* both channels are in 0..255 and the three colours the specification
\* names come out
colorInRange ==
  /\ color.rgb.red \in 0..255
  /\ color.rgb.green \in 0..255
  /\ color.rgb.blue = 0
  /\ color.level = 0 => (color.rgb.red = 255 /\ color.rgb.green = 0)
  /\ color.level = 100 => (color.rgb.red = 0 /\ color.rgb.green = 255)
  /\ color.level = 50 => (color.rgb.red = 128 /\ color.rgb.green = 128)

\* C18 as stated: for every integer score in 0..100 the colour is
\* rgb(round(255 * (1 - score / 100)), round(255 * score / 100), 0), both
\* channels in 0..255, with rgb(255,0,0) at 0, rgb(0,255,0) at 100 and
\* rgb(128,128,0) at 50.
C18_AsStated ==
  color.done =>
    /\ color.rgb.red = nearest(255 * (100 - color.level), 100)
    /\ color.rgb.green = nearest(255 * color.level, 100)
    /\ colorInRange

\* C18 as amended: the green channel is round(255 * score / 100); the red
\* channel is round(255 * (1 - score / 100)) except at score 90, where
\* the double 255 * (1 - 90 / 100) lies below 25.5 and the channel is 25;
\* both channels are in 0..255 and the colours at 0, 50 and 100 are
\* rgb(255,0,0), rgb(128,128,0) and rgb(0,255,0).
C18_ColorOfScore ==
  color.done =>
    /\ color.rgb.red = IF color.level = 90 THEN 25
                       ELSE nearest(255 * (100 - color.level), 100)
    /\ color.rgb.green = nearest(255 * color.level, 100)
    /\ colorInRange

\* the colour of score 90 has been computed
C18_Witness ==
  /\ color.done
  /\ color.level = 90
  /\ color.rgb = [red |-> 25, green |-> 230, blue |-> 0]

(***************************************************************************)
(* The primary match of a group (main.ts)                                  *)
(***************************************************************************)
\* the member of group g that comes first by ascending start, then
\* descending length
firstMember(g) ==
  CHOOSE m \in membersOf(g) : \A o \in membersOf(g) : o = m \/ matchBefore(m, o)

\* C16: the primary match of a group is its first member by ascending
\* start, then descending length, and the background colour of the
\* group's span is the colour of that member's score.
C16_PrimaryIsFirst ==
  unitStacked =>
    /\ Len(unit.backgrounds) = Len(unitGroups)
    /\ \A g \in 1..Len(unitGroups) :
         /\ \E m \in membersOf(g) : \A o \in membersOf(g) : o = m \/ matchBefore(m, o)
         /\ primaryOf(unitGroups[g]) = firstMember(g)
         /\ unit.backgrounds[g] = getDifficultyColor(firstMember(g).level)

\* a group whose members have different scores, coloured by its first
\* member
C16_Witness ==
  /\ unitStacked
  /\ \E g \in 1..Len(unitGroups) :
       /\ \E m \in membersOf(g) :
            getDifficultyColor(m.level) # getDifficultyColor(firstMember(g).level)
       /\ unit.backgrounds[g] = getDifficultyColor(firstMember(g).level)

(***************************************************************************)
(* Separate groups for matches that do not intersect (both revisions)      *)
(***************************************************************************)
unitRendered == unit.done /\ ~isBlank(unit.text)

\* no group holds both matches
inSeparateGroups(a, b) == groupsOf(a) \cap groupsOf(b) = {}

\* another match overlaps both a and b
overlappedTogether(a, b) ==
  \E h \in unitMatchSet :
    h # a /\ h # b /\ matchesIntersect(h, a) /\ matchesIntersect(h, b)

\* the highlight spans of the unit's fragment, in order
unitSpans == LET isSpan(piece) == piece.kind = "span" IN SelectSeq(unit.pieces, isSpan)

\* every group is rendered as one highlight span that shows the text at
\* the group's place, and the text outside the spans is kept
groupsRendered ==
  /\ Len(unitSpans) = Len(unitGroups)
  /\ \A g \in 1..Len(unitGroups) :
       unitSpans[g].text = substring(unit.text, unitGroups[g].index,
                                     unitGroups[g].index + unitGroups[g].length)
  /\ unit.pieces # <<>> => concat(pieceTexts(unit.pieces)) = unit.text

\* the two scenarios come out as the specification says
scenariosRendered ==
  /\ (unit.text = ScenarioLatin[1] /\ unit.words = ScenarioLatin[2]) =>
       /\ Len(unitGroups) = 2
       /\ unitGroups[1].index = 0 /\ unitGroups[1].length = 3
       /\ primaryOf(unitGroups[1]).word = tABC
       /\ unitGroups[2].index = 3 /\ unitGroups[2].length = 2
       /\ primaryOf(unitGroups[2]).word = tAB
       /\ unit.pieces = <<[kind |-> "span", text |-> tABC],
                          [kind |-> "span", text |-> tAB]>>
  /\ (unit.text = ScenarioKanji[1] /\ unit.words = ScenarioKanji[2]) =>
       /\ Len(unitGroups) = 2
       /\ unitGroups[1].index = 0 /\ unitGroups[1].length = 1
       /\ unitGroups[2].index = 2 /\ unitGroups[2].length = 1
       /\ unit.pieces = <<[kind |-> "span", text |-> tCat],
                          [kind |-> "text", text |-> <<"U+3068">>],
                          [kind |-> "span", text |-> tDog]>>

\* C17 as stated: two matches whose character ranges do not intersect
\* are in separate groups, every group is rendered as its own highlight
\* span with the text between the spans left as plain text, and the two
\* scenarios give the groups [0,3) 'abc', [3,5) 'ab' and [0,1), [2,3).
C17_AsStated ==
  unitRendered =>
    /\ \A a, b \in unitMatchSet :
         (a # b /\ ~matchesIntersect(a, b)) => inSeparateGroups(a, b)
    /\ groupsRendered
    /\ scenariosRendered

\* C17 as amended: two matches whose character ranges do not intersect,
\* and that are not both overlapped by one other match, are in separate
\* groups; every group is rendered as its own highlight span with the
\* text between the spans left as plain text; the two scenarios give the
\* groups [0,3) 'abc', [3,5) 'ab' and [0,1), [2,3).
C17_SeparateGroups ==
  unitRendered =>
    /\ \A a, b \in unitMatchSet :
         (a # b /\ ~matchesIntersect(a, b) /\ ~overlappedTogether(a, b))
         => inSeparateGroups(a, b)
    /\ groupsRendered
    /\ scenariosRendered

\* the first scenario has been rendered by the stacking content script:
\* 'ab' at 0 is a member of the group of 'abc', 'ab' at 3 has its own
C17_Witness ==
  /\ unitStacked
  /\ unit.text = ScenarioLatin[1]
  /\ unit.words = ScenarioLatin[2]
  /\ Len(unit.matches) = 3
  /\ Len(unitGroups) = 2
  /\ Len(unitGroups[1].overlapping) = 2

(***************************************************************************)
(* The background script (background.ts): the word store                   *)
(***************************************************************************)
\* a read of a property the object does not have
Undefined == -1

\* the characters of the keys of the object store, by ascending code unit
CodeOrder == <<"S", "_", "a", "b", "c", "d", "e", "l", "m", "n", "s", "t", "y">>

codeUnit(c) == CHOOSE i \in 1..Len(CodeOrder) : CodeOrder[i] = c

\* IndexedDB orders string keys by their code units
keyLess(a, b) ==
  \E i \in 1..(Min(Len(a), Len(b)) + 1) :
    /\ \A k \in 1..(i - 1) : a[k] = b[k]
    /\ \/ i > Len(a) /\ i <= Len(b)
       \/ i <= Len(a) /\ i <= Len(b) /\ codeUnit(a[i]) < codeUnit(b[i])

\* `__metadata_${key}`
metadataKey(key) == <<"_", "_", "m", "e", "t", "a", "d", "a", "t", "a", "_">> \o key

LastSyncKey == <<"l", "a", "s", "t", "S", "y", "n", "c">>

\* an object of the store, keyPath "word"; a property it does not have
\* reads undefined
storeObject(word, difficultyLevel, value) ==
  [word |-> word, difficultyLevel |-> difficultyLevel, value |-> value]

\* store.put(object): the object replaces the one of the same key
put(st, object) == {r \in st : r.word # object.word} \cup {object}

\* store.getAll(): the objects by ascending key
RECURSIVE getAll(_)
getAll(st) ==
  IF st = {} THEN <<>>
  ELSE LET first == CHOOSE r \in st : \A o \in st \ {r} : keyLess(r.word, o.word)
       IN <<first>> \o getAll(st \ {first})

\* wordMap.set(word, { difficultyLevel }): a key already present keeps its
\* position
mapSet(entries, word, level) ==
  IF \E i \in 1..Len(entries) : entries[i].word = word
  THEN [i \in 1..Len(entries) |->
          IF entries[i].word = word THEN [word |-> word, level |-> level]
          ELSE entries[i]]
  ELSE Append(entries, [word |-> word, level |-> level])

\* store.clear()
clear(st) == {}

\* words.forEach((data, word) => store.put({ word, difficultyLevel }))
RECURSIVE putAll(_, _, _)
putAll(st, entries, i) ==
  IF i > Len(entries) THEN st
  ELSE putAll(put(st, storeObject(entries[i].word, entries[i].level, Undefined)),
              entries, i + 1)

\* AnkiDB.saveWords(words), as its transaction commits
dbSaveWords(st, entries) == putAll(clear(st), entries, 1)

\* results.forEach(item => wordMap.set(item.word, { difficultyLevel:
\* item.difficultyLevel }))
RECURSIVE wordMapOfItems(_, _, _)
wordMapOfItems(results, i, wordMap) ==
  IF i > Len(results) THEN wordMap
  ELSE wordMapOfItems(results, i + 1,
                      mapSet(wordMap, results[i].word, results[i].difficultyLevel))

\* AnkiDB.getWords(): null for an empty store, else a Map of every object
dbGetWords(st) ==
  LET results == getAll(st)
  IN IF Len(results) = 0 THEN Null ELSE MapOf(wordMapOfItems(results, 1, <<>>))

\* AnkiDB.saveMetadata(key, value), as its transaction commits
dbSaveMetadata(st, key, value) == put(st, storeObject(metadataKey(key), Undefined, value))

\* AnkiDB.getMetadata(key): request.result?.value
dbGetMetadata(st, key) ==
  IF \E r \in st : r.word = metadataKey(key)
  THEN (CHOOSE r \in st : r.word = metadataKey(key)).value
  ELSE Undefined

(***************************************************************************)
(* The background script: fetchJapaneseCards                               *)
(***************************************************************************)
\* a difficulty level is a multiple of 1/ScoreUnit: 73, 6, 69, 7 and 3, the
\* denominators of the five interval bands in lowest terms, divide it
ScoreUnit == 70518

\* a card of cardsInfo: fields.Expression.value, interval, lapses, reps
mkCard(expression, interval, lapses, reps) ==
  [expression |-> expression, interval |-> interval, lapses |-> lapses,
   reps |-> reps]

\* let intervalScore, in units of 1/ScoreUnit
intervalScore(interval) ==
  IF interval >= 180
    THEN 90 * ScoreUnit
         + Min((interval - 180) * 2 * (ScoreUnit \div 73), 10 * ScoreUnit)
  ELSE IF interval >= 90 THEN 75 * ScoreUnit + (interval - 90) * (ScoreUnit \div 6)
  ELSE IF interval >= 21
    THEN 50 * ScoreUnit + (interval - 21) * 25 * (ScoreUnit \div 69)
  ELSE IF interval >= 7 THEN 30 * ScoreUnit + (interval - 7) * 10 * (ScoreUnit \div 7)
  ELSE IF interval >= 1 THEN 10 * ScoreUnit + (interval - 1) * 10 * (ScoreUnit \div 3)
  ELSE 0

\* let difficultyLevel = intervalScore + lapsesScore + repsBonus, in units
\* of 1/ScoreUnit
rawLevelOf(card) ==
  LET lapsesScore == 0 - Min(card.lapses * 5, 25) * ScoreUnit
      repsBonus == IF card.reps > 0 THEN Min(card.reps * 2, 10) * ScoreUnit ELSE 0
  IN intervalScore(card.interval) + lapsesScore + repsBonus

\* a score that is stored as it was added up
unclampedLevelOf(card) == rawLevelOf(card)

\* difficultyLevel = Math.max(0, Math.min(100, difficultyLevel))
difficultyLevelOf(card) ==
  Max(0, Min(MaxScore * ScoreUnit, rawLevelOf(card)))

\* allCardsInfo.forEach(card => ...): a card without an expression is
\* skipped
RECURSIVE wordMapOfCards(_, _, _)
wordMapOfCards(cards, i, wordMap) ==
  IF i > Len(cards) THEN wordMap
  ELSE IF cards[i].expression = <<>> THEN wordMapOfCards(cards, i + 1, wordMap)
  ELSE wordMapOfCards(cards, i + 1,
                      mapSet(wordMap, cards[i].expression, difficultyLevelOf(cards[i])))

\* what AnkiConnect does to the requests of one fetch: it fails (Anki is
\* not running, a request is rejected), or it answers with the cards of the
\* deck
fetchFails == [ok |-> FALSE, cards |-> <<>>]

fetchAnswers(cards) == [ok |-> TRUE, cards |-> cards]

\* fetchJapaneseCards(): the catch block returns new Map(), as does a deck
\* without cards
fetchJapaneseCards(outcome) ==
  IF ~outcome.ok THEN <<>>
  ELSE IF Len(outcome.cards) = 0 THEN <<>>
  ELSE wordMapOfCards(outcome.cards, 1, <<>>)

\* decks: a known word, a card without expression and a new word with
\* lapses; two cards of one expression, one of them in learning (a
\* negative interval); no card
DeckKnown ==
  <<mkCard(tAB, 200, 0, 5), mkCard(<<>>, 30, 0, 1), mkCard(<<"a">>, 0, 3, 0)>>

DeckLearning == <<mkCard(<<"b">>, 30, 1, 2), mkCard(<<"b">>, -600, 0, 0)>>

Decks == {DeckKnown, DeckLearning, <<>>}

FetchOutcomes == {fetchFails} \cup {fetchAnswers(cards) : cards \in Decks}

(***************************************************************************)
(* The background script: state                                            *)
(***************************************************************************)
\* const SYNC_INTERVAL = 24 * 60 * 60 * 1000, in hours
SYNC_INTERVAL == 24

\* the clock advances by half a sync interval
ClockStep == 12

\* the variables of the page's highlighter
pageVars == <<script, boot, wordsMap, isHighlighting, mutationTimeout, timers,
              nodes, body, passes, records, mutations, walks, hist, deb, unit,
              color, score, batch, trip>>

\* Array.from(cachedWords.entries()), or [] when cachedWords is null
wordsResponse(cached) == IF cached.null THEN <<>> ELSE cached.entries

\* a message whose handler has returned true and not yet responded
mkRequest(action, pc, sync) ==
  [action |-> action, pc |-> pc, sync |-> sync, responses |-> <<>>]

\* sendResponse({ words }) of getWords, sendResponse({ words, count }) of
\* refreshWords
respond(request, cached) ==
  [request EXCEPT
     !.pc = "done",
     !.responses = Append(@, [words |-> wordsResponse(cached),
                              count |-> IF request.action = "refreshWords"
                                        THEN Len(wordsResponse(cached))
                                        ELSE Undefined])]

\* the word objects of the store
storedWords(st) == {r \in st : r.word # metadataKey(LastSyncKey)}

\* a getWords response other than the mapping held before the failed fetch
otherThanPrior(h, request, cached) ==
  /\ request.action = "getWords"
  /\ h.prior.set
  /\ h.prior.cached
  /\ wordsResponse(cached) # h.prior.entries

\* syncWithAnki() past its guard: isSyncing = true, the fetch is started
\* storage.deckName || "Japanese"
DefaultDeck == <<"J", "a", "p", "a", "n", "e", "s", "e">>

\* syncWithAnki() past its guard: isSyncing = true, fetchJapaneseCards has
\* read the deck name and the fetch is started
startSync(h) ==
  [id |-> h.started + 1, pc |-> "fetch", failed |-> FALSE,
   deck |-> IF deckName = <<>> THEN DefaultDeck ELSE deckName]

(***************************************************************************)
(* The background script: IndexedDB transactions                           *)
(***************************************************************************)
\* IndexedDB requests that fail
MaxDbFailures == 1

\* a transaction on the object store whose requests have been placed
mkTx(op, owner, id, words, value) ==
  [op |-> op, owner |-> owner, id |-> id, words |-> words, value |-> value]

\* a "readwrite" transaction
isWrite(tx) == tx.op \in {"saveWords", "saveMetadata"}

\* transactions on the same store run in the order of their creation;
\* "readonly" ones do not wait for one another
canComplete(queue, k) ==
  \A j \in 1..(k - 1) : ~isWrite(queue[j]) /\ ~isWrite(queue[k])

\* the positions of the transactions of an owner that can complete now
pendingTx(op, owner, id) ==
  {k \in 1..Len(dbQueue) :
     /\ dbQueue[k].op = op
     /\ dbQueue[k].owner = owner
     /\ dbQueue[k].id = id
     /\ canComplete(dbQueue, k)}

\* a "readwrite" transaction commits
commitTx(st, tx) ==
  IF tx.op = "saveWords" THEN dbSaveWords(st, tx.words)
  ELSE IF tx.op = "saveMetadata" THEN dbSaveMetadata(st, LastSyncKey, tx.value)
  ELSE st

\* the transactions of a queue commit, from position k on
RECURSIVE commitFrom(_, _, _)
commitFrom(st, queue, k) ==
  IF k > Len(queue) THEN st
  ELSE commitFrom(commitTx(st, queue[k]), queue, k + 1)

\* one more request may fail
mayFail == Cardinality(bgHist.failed) < MaxDbFailures

(***************************************************************************)
(* The background script: start-up                                         *)
(***************************************************************************)
\* a guard that lets every call through
guardOpen(flag) == FALSE

\* if (isSyncing) return
syncGuard(flag) == flag

\* a check that also syncs when the last sync is exactly SYNC_INTERVAL old
syncDueAtInterval(lastSync, time) ==
  lastSync = Undefined \/ time - lastSync >= SYNC_INTERVAL

\* !lastSync || now - lastSync > SYNC_INTERVAL
syncDue(lastSync, time) ==
  lastSync = Undefined \/ time - lastSync > SYNC_INTERVAL

\* db.init() resolves: the chain calls db.getWords()
DbInitDone ==
  /\ startup.pc = "init"
  /\ startup' = [startup EXCEPT !.pc = "getWords"]
  /\ dbQueue' = Append(dbQueue, mkTx("getWords", "startup", 0, <<>>, Undefined))
  /\ UNCHANGED <<cachedWords, isSyncing, store, syncs, requests, now,
                 intervalDue, bgHist>>
  /\ UNCHANGED <<pageVars, popupVars>>

\* savedWords arrives: if (savedWords) cachedWords = savedWords; the chain
\* calls db.getMetadata("lastSync")
StartupLoaded ==
  /\ startup.pc = "getWords"
  /\ \E k \in pendingTx("getWords", "startup", 0) :
       LET savedWords == dbGetWords(store)
       IN /\ cachedWords' = IF savedWords.null THEN cachedWords ELSE savedWords
          /\ dbQueue' = Append(removeAt(dbQueue, k),
                               mkTx("getMetadata", "startup", 0, <<>>, Undefined))
  /\ startup' = [startup EXCEPT !.pc = "getMetadata"]
  /\ UNCHANGED <<isSyncing, store, syncs, requests, now, intervalDue, bgHist>>
  /\ UNCHANGED <<pageVars, popupVars>>

\* lastSync arrives: a sync if there was none or the last one is older than
\* SYNC_INTERVAL, then setInterval
StartupChecked ==
  /\ startup.pc = "getMetadata"
  /\ \E k \in pendingTx("getMetadata", "startup", 0) :
       dbQueue' = removeAt(dbQueue, k)
  /\ startup' = [startup EXCEPT !.pc = "running"]
  /\ intervalDue' = now + SYNC_INTERVAL
  /\ LET lastSync == dbGetMetadata(store, LastSyncKey)
         due == syncDue(lastSync, now)
         checked == [bgHist EXCEPT !.startupDue = IF due THEN "due" ELSE "fresh"]
     IN IF due /\ ~syncGuard(isSyncing)
        THEN /\ isSyncing' = TRUE
             /\ syncs' = Append(syncs, startSync(bgHist))
             /\ bgHist' = [checked EXCEPT !.started = @ + 1]
        ELSE /\ bgHist' = checked
             /\ UNCHANGED <<isSyncing, syncs>>
  /\ UNCHANGED <<cachedWords, store, requests, now>>
  /\ UNCHANGED <<pageVars, popupVars>>

\* await db.getWords() or await db.getMetadata("lastSync") rejects: the
\* chain has no catch, it ends before the check and before setInterval
StartupReadFails ==
  /\ mayFail
  /\ startup.pc \in {"getWords", "getMetadata"}
  /\ \E k \in pendingTx(startup.pc, "startup", 0) :
       dbQueue' = removeAt(dbQueue, k)
  /\ startup' = [startup EXCEPT !.pc = "failed"]
  /\ bgHist' = [bgHist EXCEPT !.failed = @ \cup {"startup"}]
  /\ UNCHANGED <<cachedWords, isSyncing, store, syncs, requests, now,
                 intervalDue>>
  /\ UNCHANGED <<pageVars, popupVars>>

\* the setInterval callback: syncWithAnki()
IntervalSync ==
  /\ intervalDue # -1
  /\ now >= intervalDue
  /\ intervalDue' = intervalDue + SYNC_INTERVAL
  /\ IF ~syncGuard(isSyncing)
     THEN /\ isSyncing' = TRUE
          /\ syncs' = Append(syncs, startSync(bgHist))
          /\ bgHist' = [bgHist EXCEPT !.started = @ + 1]
     ELSE UNCHANGED <<isSyncing, syncs, bgHist>>
  /\ UNCHANGED <<cachedWords, store, dbQueue, requests, startup, now>>
  /\ UNCHANGED <<pageVars, popupVars>>

(***************************************************************************)
(* The background script: syncWithAnki                                     *)
(***************************************************************************)
\* await fetchJapaneseCards() settles: cachedWords = words, then
\* db.saveWords(words) places clear and the puts.  The database is open by
\* then: opening it is local, the fetch goes over HTTP
FetchSettles(i, outcome) ==
  /\ syncs[i].pc = "fetch"
  /\ startup.pc # "init"
  /\ LET words == fetchJapaneseCards(outcome)
     IN /\ cachedWords' = MapOf(words)
        /\ dbQueue' = Append(dbQueue,
                             mkTx("saveWords", "sync", syncs[i].id, words, Undefined))
        /\ syncs' = [syncs EXCEPT ![i].pc = "saveWords", ![i].failed = ~outcome.ok]
        /\ bgHist' =
             [bgHist EXCEPT
                !.prior = IF outcome.ok
                          THEN NoBgHist.prior
                          ELSE IF @.set THEN @
                          ELSE [set |-> TRUE, cached |-> ~cachedWords.null,
                                entries |-> cachedWords.entries,
                                stored |-> storedWords(store)]]
  /\ UNCHANGED <<isSyncing, store, requests, startup, now, intervalDue>>
  /\ UNCHANGED <<pageVars, popupVars>>

\* await db.saveWords(words) resolves: db.saveMetadata("lastSync", Date.now())
SaveWordsDone(i) ==
  /\ syncs[i].pc = "saveWords"
  /\ \E k \in pendingTx("saveWords", "sync", syncs[i].id) :
       /\ store' = commitTx(store, dbQueue[k])
       /\ dbQueue' = Append(removeAt(dbQueue, k),
                            mkTx("saveMetadata", "sync", syncs[i].id, <<>>, now))
  /\ syncs' = [syncs EXCEPT ![i].pc = "saveMetadata"]
  /\ UNCHANGED <<cachedWords, isSyncing, requests, startup, now, intervalDue,
                 bgHist>>
  /\ UNCHANGED <<pageVars, popupVars>>

\* the request of a syncWithAnki().then(...) that waits for the sync at i
waiting(i, r) ==
  requests[r].pc = "awaitSync" /\ requests[r].sync = syncs[i].id

\* finally { isSyncing = false }: syncWithAnki returns and the callbacks of
\* syncWithAnki().then(...) respond
syncReturns(i) ==
  /\ isSyncing' = FALSE
  /\ syncs' = removeAt(syncs, i)
  /\ requests' = [r \in 1..Len(requests) |->
                    IF waiting(i, r) THEN respond(requests[r], cachedWords)
                    ELSE requests[r]]

\* whether a response of syncReturns(i) is not the mapping held before the
\* failed fetch
answersOther(i) ==
  \E r \in 1..Len(requests) :
    waiting(i, r) /\ otherThanPrior(bgHist, requests[r], cachedWords)

\* await db.saveMetadata(...) resolves
SaveMetadataDone(i) ==
  /\ syncs[i].pc = "saveMetadata"
  /\ \E k \in pendingTx("saveMetadata", "sync", syncs[i].id) :
       /\ store' = commitTx(store, dbQueue[k])
       /\ dbQueue' = removeAt(dbQueue, k)
  /\ syncReturns(i)
  /\ bgHist' = [bgHist EXCEPT !.answeredOther = @ \/ answersOther(i),
                              !.synced = @ \cup {syncs[i].deck}]
  /\ UNCHANGED <<cachedWords, startup, now, intervalDue>>
  /\ UNCHANGED <<pageVars, popupVars>>

\* await db.saveWords(words) or await db.saveMetadata(...) rejects: the
\* transaction is aborted, catch logs the error
SaveFails(i) ==
  /\ mayFail
  /\ syncs[i].pc \in {"saveWords", "saveMetadata"}
  /\ \E k \in pendingTx(syncs[i].pc, "sync", syncs[i].id) :
       dbQueue' = removeAt(dbQueue, k)
  /\ syncReturns(i)
  /\ bgHist' = [bgHist EXCEPT !.answeredOther = @ \/ answersOther(i),
                              !.failed = @ \cup {"sync"},
                              !.synced = @ \cup {syncs[i].deck}]
  /\ UNCHANGED <<cachedWords, store, startup, now, intervalDue>>
  /\ UNCHANGED <<pageVars, popupVars>>

(***************************************************************************)
(* The background script: messages                                         *)
(***************************************************************************)
\* messages the content script and the popup send
MaxMessages == 1

\* restarts of the background script (the browser stops an idle script and
\* starts it again; the object store persists)
MaxRestarts == 1

\* hours the clock runs for
MaxHours == 48

\* { action: "getWords" }: the cached words at once, else db.getWords()
GetWordsMessage ==
  /\ bgHist.messages < MaxMessages
  /\ LET r == Len(requests) + 1
         request ==
           IF ~cachedWords.null
           THEN respond(mkRequest("getWords", "done", 0), cachedWords)
           ELSE IF startup.pc = "init"
           THEN mkRequest("getWords", "open", 0)
           ELSE mkRequest("getWords", "dbRead", 0)
     IN /\ requests' = Append(requests, request)
        /\ dbQueue' = IF request.pc = "dbRead"
                      THEN Append(dbQueue, mkTx("getWords", "request", r, <<>>,
                                                Undefined))
                      ELSE dbQueue
        /\ bgHist' =
             [bgHist EXCEPT
                !.messages = @ + 1,
                !.answeredOther =
                  @ \/ (~cachedWords.null /\ syncs = <<>>
                        /\ otherThanPrior(bgHist, request, cachedWords))]
  /\ UNCHANGED <<cachedWords, isSyncing, store, syncs, startup, now, intervalDue>>
  /\ UNCHANGED <<pageVars, popupVars>>

\* if (!this.db) await this.init() of a getWords call made before the
\* database was open: the read transaction is created
GetWordsDbOpen(r) ==
  /\ requests[r].pc = "open"
  /\ requests' = [requests EXCEPT ![r].pc = "dbRead"]
  /\ dbQueue' = Append(dbQueue, mkTx("getWords", "request", r, <<>>, Undefined))
  /\ UNCHANGED <<cachedWords, isSyncing, store, syncs, startup, now,
                 intervalDue, bgHist>>
  /\ UNCHANGED <<pageVars, popupVars>>

\* db.getWords().then(words => ...): the stored words if any, else
\* syncWithAnki().then(...), which responds at once when a sync is running
GetWordsDbRead(r) ==
  /\ requests[r].pc = "dbRead"
  /\ \E k \in pendingTx("getWords", "request", r) :
       dbQueue' = removeAt(dbQueue, k)
  /\ LET words == dbGetWords(store)
     IN IF ~words.null
        THEN /\ cachedWords' = words
             /\ requests' = [requests EXCEPT ![r] = respond(@, words)]
             /\ UNCHANGED <<isSyncing, syncs, bgHist>>
        ELSE IF syncGuard(isSyncing)
        THEN /\ requests' = [requests EXCEPT ![r] = respond(@, cachedWords)]
             /\ UNCHANGED <<cachedWords, isSyncing, syncs, bgHist>>
        ELSE /\ isSyncing' = TRUE
             /\ syncs' = Append(syncs, startSync(bgHist))
             /\ bgHist' = [bgHist EXCEPT !.started = @ + 1]
             /\ requests' = [requests EXCEPT ![r].pc = "awaitSync",
                                             ![r].sync = bgHist.started + 1]
             /\ UNCHANGED cachedWords
  /\ UNCHANGED <<store, startup, now, intervalDue>>
  /\ UNCHANGED <<pageVars, popupVars>>

\* db.getWords() rejects: db.getWords().then(...) has no second callback
\* and no catch, sendResponse is not called
GetWordsDbFails(r) ==
  /\ mayFail
  /\ requests[r].pc = "dbRead"
  /\ \E k \in pendingTx("getWords", "request", r) :
       dbQueue' = removeAt(dbQueue, k)
  /\ requests' = [requests EXCEPT ![r].pc = "rejected"]
  /\ bgHist' = [bgHist EXCEPT !.failed = @ \cup {"request"}]
  /\ UNCHANGED <<cachedWords, isSyncing, store, syncs, startup, now,
                 intervalDue>>
  /\ UNCHANGED <<pageVars, popupVars>>

\* { action: "refreshWords" }: syncWithAnki().then(...)
RefreshWordsMessage ==
  /\ bgHist.messages < MaxMessages
  /\ IF syncGuard(isSyncing)
     THEN /\ requests' = Append(requests,
                                respond(mkRequest("refreshWords", "done", 0),
                                        cachedWords))
          /\ bgHist' = [bgHist EXCEPT !.messages = @ + 1]
          /\ UNCHANGED <<isSyncing, syncs>>
     ELSE /\ isSyncing' = TRUE
          /\ syncs' = Append(syncs, startSync(bgHist))
          /\ requests' = Append(requests,
                                mkRequest("refreshWords", "awaitSync",
                                          bgHist.started + 1))
          /\ bgHist' = [bgHist EXCEPT !.messages = @ + 1, !.started = @ + 1]
  /\ UNCHANGED <<cachedWords, store, dbQueue, startup, now, intervalDue>>
  /\ UNCHANGED <<pageVars, popupVars>>

(***************************************************************************)
(* The background script: its environment                                  *)
(***************************************************************************)
\* time passes, up to the moment the timer is due: a due timer fires before
\* more time passes
AdvanceClock ==
  /\ now + ClockStep <= StartHour + MaxHours
  /\ intervalDue = -1 \/ now < intervalDue
  /\ now' = IF intervalDue = -1 THEN now + ClockStep
            ELSE Min(now + ClockStep, intervalDue)
  /\ UNCHANGED <<cachedWords, isSyncing, store, dbQueue, syncs, requests,
                 startup, intervalDue, bgHist>>
  /\ UNCHANGED <<pageVars, popupVars>>

\* the background script is stopped and started again: the module state is
\* that of a fresh evaluation, the promises and timers are gone; the
\* transactions still running commit or are aborted
BgRestart ==
  /\ bgHist.restarts < MaxRestarts
  /\ cachedWords' = Null
  /\ isSyncing' = FALSE
  /\ syncs' = <<>>
  /\ dbQueue' = <<>>
  /\ store' \in {store, commitFrom(store, dbQueue, 1)}
  /\ requests' = [r \in 1..Len(requests) |->
                    IF requests[r].pc = "done" THEN requests[r]
                    ELSE [requests[r] EXCEPT !.pc = "dropped"]]
  /\ startup' = NoStartup
  /\ intervalDue' = -1
  /\ bgHist' = [bgHist EXCEPT !.restarts = @ + 1, !.prior = NoBgHist.prior,
                              !.startupDue = "unchecked"]
  /\ UNCHANGED now
  /\ UNCHANGED <<pageVars, popupVars>>

(***************************************************************************)
(* The synchronisation specification: the background script on its own     *)
(***************************************************************************)
InitSync ==
  /\ script = "main"
  /\ boot = "requested"
  /\ wordsMap = <<>>
  /\ isHighlighting = FALSE
  /\ mutationTimeout = 0
  /\ timers = {}
  /\ nodes = SmallDocument
  /\ body = [i \in 1..Len(nodes) |-> i]
  /\ passes = <<>>
  /\ records = <<>>
  /\ mutations = 0
  /\ walks = 0
  /\ hist = [incomplete |-> FALSE, lost |-> FALSE, late |-> {},
             retouchedLate |-> FALSE, laterReplaced |-> FALSE,
             excludedMatched |-> FALSE, removedThenSkipped |-> FALSE,
             nested |-> FALSE]
  /\ deb = [sinceSignal |-> 0, ignored |-> FALSE, armed |-> FALSE, calls |-> 0,
            signals |-> 0, lastDelay |-> -1, lastClean |-> FALSE,
            lastSignals |-> 0]
  /\ unit = NoUnit
  /\ color = NoColor
  /\ score = NoScore
  /\ batch = NoBatch
  /\ trip = NoTrip
  /\ BackgroundStarting

NextSync ==
  \/ DbInitDone
  \/ StartupLoaded
  \/ StartupChecked
  \/ StartupReadFails
  \/ IntervalSync
  \/ \E i \in 1..Len(syncs), outcome \in FetchOutcomes : FetchSettles(i, outcome)
  \/ \E i \in 1..Len(syncs) : SaveWordsDone(i)
  \/ \E i \in 1..Len(syncs) : SaveMetadataDone(i)
  \/ \E i \in 1..Len(syncs) : SaveFails(i)
  \/ GetWordsMessage
  \/ \E r \in 1..Len(requests) : GetWordsDbOpen(r)
  \/ \E r \in 1..Len(requests) : GetWordsDbRead(r)
  \/ \E r \in 1..Len(requests) : GetWordsDbFails(r)
  \/ RefreshWordsMessage
  \/ AdvanceClock
  \/ BgRestart

SpecSync == InitSync /\ [][NextSync]_vars

(***************************************************************************)
(* A sync whose fetch fails                                                *)
(***************************************************************************)
\* C19: after a sync whose fetch fails, cachedWords and the word objects of
\* the store are what they were before it, and every later getWords request
\* is answered with that prior mapping
C19_FailedSyncKeepsWords ==
  /\ (bgHist.prior.set /\ syncs = <<>>) =>
       /\ bgHist.prior.cached => cachedWords = MapOf(bgHist.prior.entries)
       /\ storedWords(store) = bgHist.prior.stored
  /\ ~bgHist.answeredOther

(***************************************************************************)
(* The entries of the mapping                                              *)
(***************************************************************************)
\* an entry whose word is not empty and whose score is a number
validEntry(e) == e.word # <<>> /\ e.level # Undefined

validEntries(entries) == \A i \in 1..Len(entries) : validEntry(entries[i])

\* wordsMap = new Map(response.words): the mappings the content script
\* matches with are the words of the responses
servedMappings ==
  UNION {{requests[r].responses[k].words : k \in 1..Len(requests[r].responses)} :
           r \in 1..Len(requests)}

\* C20: no mapping the Match Engine runs on, fetched from Anki or loaded
\* from the store, has an entry with an empty word or a score that is not a
\* number
C20_EntriesValid == \A words \in servedMappings : validEntries(words)

(***************************************************************************)
(* The score specification: the difficulty fetchJapaneseCards stores for   *)
(* one card                                                                *)
(***************************************************************************)
\* the largest interval of a card, in days; the score stops growing at 545
MaxInterval == 600

\* the most lapses of a card; the penalty stops growing at 5
MaxLapses == 6

\* the most reviews of a card; the bonus stops growing at 5
MaxReps == 6

InitScore ==
  /\ script = "main"
  /\ boot = "requested"
  /\ wordsMap = <<>>
  /\ isHighlighting = FALSE
  /\ mutationTimeout = 0
  /\ timers = {}
  /\ nodes = SmallDocument
  /\ body = [i \in 1..Len(nodes) |-> i]
  /\ passes = <<>>
  /\ records = <<>>
  /\ mutations = 0
  /\ walks = 0
  /\ hist = [incomplete |-> FALSE, lost |-> FALSE, late |-> {},
             retouchedLate |-> FALSE, laterReplaced |-> FALSE,
             excludedMatched |-> FALSE, removedThenSkipped |-> FALSE,
             nested |-> FALSE]
  /\ deb = [sinceSignal |-> 0, ignored |-> FALSE, armed |-> FALSE, calls |-> 0,
            signals |-> 0, lastDelay |-> -1, lastClean |-> FALSE,
            lastSignals |-> 0]
  /\ unit = NoUnit
  /\ color = NoColor
  /\ \E interval \in (0 - MaxInterval)..MaxInterval,
        lapses \in (0 - MaxLapses)..MaxLapses,
        reps \in (0 - MaxReps)..MaxReps :
       score = [NoScore EXCEPT !.card = mkCard(tAB, interval, lapses, reps)]
  /\ batch = NoBatch
  /\ trip = NoTrip
  /\ BackgroundStarting

\* wordMap.set(expression, { difficultyLevel }) for the one card of a deck
ScoreCard ==
  /\ ~score.done
  /\ score' = [score EXCEPT
                 !.done = TRUE,
                 !.level = fetchJapaneseCards(fetchAnswers(<<score.card>>))[1].level]
  /\ UNCHANGED <<script, boot, wordsMap, isHighlighting, mutationTimeout,
                 timers, nodes, body, passes, records, mutations, walks,
                 hist, deb, unit, color, batch, trip, popupVars,
                 bgVars>>

NextScore == ScoreCard

SpecScore == InitScore /\ [][NextScore]_vars

\* C21: the difficulty stored for a card with integer interval, lapses and
\* reps, of either sign, is between 0 and 100
C21_ScoreInRange ==
  score.done => (0 <= score.level /\ score.level <= MaxScore * ScoreUnit)

\* a card whose sum is above 100 has been scored and stored as 100
C21_Witness ==
  /\ score.done
  /\ rawLevelOf(score.card) > MaxScore * ScoreUnit
  /\ score.card.interval > 0
  /\ score.level = MaxScore * ScoreUnit

(***************************************************************************)
(* A unit that was removed from the document before its batch              *)
(***************************************************************************)
\* C22: a text node removed from the document between the walk and its
\* batch is skipped without ending the pass: every enumerated unit after it
\* is still processed, and the pass ends with the flag cleared
C22_RemovedUnitSkipped == ~hist.removedThenSkipped

(***************************************************************************)
(* Text nodes without a match                                              *)
(***************************************************************************)
\* the text node is whitespace-only or no word of the mapping occurs in it
withoutMatch(id) == isBlank(nodes[id].text) \/ ~hasWord(id)

\* the step is one of the content script, not of the page
scriptStep == mutations' = mutations

\* C23: a step of the content script leaves a text node that is empty or
\* whitespace-only, or in which no word of the mapping occurs, as it is: the
\* same node under the same parent with the same text, still in the
\* document if it was
C23_UntouchedWithoutMatch ==
  [][scriptStep =>
       \A id \in 1..Len(nodes) : withoutMatch(id) => nodes'[id] = nodes[id]]_vars

\* a pass has visited every unit it enumerated, has replaced one of them
\* and has met a whitespace-only unit and a unit without a mapping word
C23_Witness ==
  /\ boot = "called"
  /\ passes = <<>>
  /\ walks >= 1
  /\ ~hist.incomplete
  /\ mutations = 0
  /\ \E id \in 1..Len(nodes) : ~nodes[id].attached
  /\ \E i \in 1..Len(body) : isBlank(nodes[body[i]].text)
  /\ \E i \in 1..Len(body) :
       /\ nodes[body[i]].origin = 0
       /\ acceptNode(nodes[body[i]])
       /\ ~isBlank(nodes[body[i]].text)
       /\ ~hasWord(body[i])

(***************************************************************************)
(* The running flag                                                        *)
(***************************************************************************)
\* a pass that has set the flag has a batch scheduled
flagPassScheduled == \E i \in 1..Len(passes) : passes[i].initial

\* the pass at position i is as it was, or a batch has moved it on, or it has
\* come to its end and the flag is reset
advancesOrEnds(i) ==
  \/ \E j \in 1..Len(passes') : passes'[j] = passes[i]
  \/ \E j \in 1..Len(passes') :
       /\ passes'[j].number = passes[i].number
       /\ passes'[j].processed > passes[i].processed
  \/ /\ \A j \in 1..Len(passes') : passes'[j].number # passes[i].number
     /\ ~isHighlighting'

\* C24: while the flag is set, a batch of the pass that set it is
\* scheduled; a scheduled batch has units left, and every batch of the pass
\* moves it on or ends it with the flag reset, so that the pass ends after
\* finitely many callbacks of the host; this includes the pass whose walk
\* enumerates no text node
C24_FlagReset ==
  /\ [](isHighlighting => flagPassScheduled)
  /\ [](\A i \in 1..Len(passes) : passes[i].processed < Len(passes[i].textNodes))
  /\ [][\A i \in 1..Len(passes) : passes[i].initial => advancesOrEnds(i)]_vars

\* highlightWords(false) has run on a page where the walk enumerates no
\* text node, and the flag is not set
C24_Witness ==
  /\ boot = "called"
  /\ Len(wordsMap) > 0
  /\ walks = 1
  /\ mutations = 0
  /\ walkTextNodes(nodes, body) = <<>>
  /\ Len(nodes) = 1
  /\ passes = <<>>
  /\ ~isHighlighting

(***************************************************************************)
(* The underlines of a group (main.ts)                                     *)
(***************************************************************************)
\* C26: in the stacking content script every underline lies inside the
\* span of its group: left >= 0 and left + width <= 100 percent of the
\* width of the span, before the gap is subtracted
C26_UnderlinesInsideSpan ==
  unitStacked =>
    \A g \in 1..Len(unitGroups) :
      \A idx \in 1..Len(unitGroups[g].overlapping) :
        LET u == underlinesOf(unitGroups[g])[idx]
        IN /\ 0 <= u.left
           /\ u.left + u.width <= 100 * u.totalLength

(***************************************************************************)
(* What arms the debounce timer                                            *)
(***************************************************************************)
\* the step arms a debounce timer: a timer with the full delay is new
armsTimer == \E t \in timers' : t.left = DebounceMs /\ t \notin timers

\* the pending batch of mutation records has an inserted element
elementInserted == \E i \in 1..Len(records) : records[i].elem

\* C27: a batch of mutation records without an inserted element neither
\* starts nor restarts the debounce timer, and a step that arms the timer
\* is the delivery of a batch with an inserted element
C27_OnlyElementsSchedule ==
  [][/\ (records # <<>> /\ ~elementInserted) =>
          (timers' = timers /\ mutationTimeout' = mutationTimeout)
     /\ (armsTimer \/ mutationTimeout' \notin {mutationTimeout, 0}) =>
          elementInserted]_vars

\* the page has removed a text node, the record has been delivered, and no
\* timer was armed (there was no pass: the words never arrived)
C27_Witness ==
  /\ boot = "failed"
  /\ mutations = 1
  /\ records = <<>>
  /\ \E id \in 1..Len(nodes) : ~nodes[id].attached
  /\ timers = {}
  /\ mutationTimeout = 0
  /\ ~deb.armed

(***************************************************************************)
(* The batch specification: the loop of processBatch, one step per check   *)
(* of the deadline                                                         *)
(***************************************************************************)
\* const deadline = performance.now() + 8, in milliseconds
BudgetMs == 8

\* the longest a unit takes to match and render, in milliseconds
MaxUnitMs == 20

\* the most batches a pass of the model needs
MaxBatches == 3

\* textNodes.length: nothing, one node, a full batch, one node more, and
\* MaxBatches batches
ListLengths ==
  {0, 1, batchSize, batchSize + 1, (MaxBatches - 1) * batchSize + 1}

\* how long the match and render step of a unit takes
UnitDurations == {0, 3, MaxUnitMs}

\* a loop that never looks at the clock
deadlineIgnored(elapsed) == FALSE

\* performance.now() >= deadline, with the time since the deadline was set
deadlinePassed(elapsed) == elapsed >= BudgetMs

\* Math.min(processed + batchSize, textNodes.length)
batchEnd(processed, length) == Min(processed + batchSize, length)

InitBatch ==
  /\ script = "main"
  /\ boot = "requested"
  /\ wordsMap = <<>>
  /\ isHighlighting = FALSE
  /\ mutationTimeout = 0
  /\ timers = {}
  /\ nodes = SmallDocument
  /\ body = [i \in 1..Len(nodes) |-> i]
  /\ passes = <<>>
  /\ records = <<>>
  /\ mutations = 0
  /\ walks = 0
  /\ hist = [incomplete |-> FALSE, lost |-> FALSE, late |-> {},
             retouchedLate |-> FALSE, laterReplaced |-> FALSE,
             excludedMatched |-> FALSE, removedThenSkipped |-> FALSE,
             nested |-> FALSE]
  /\ deb = [sinceSignal |-> 0, ignored |-> FALSE, armed |-> FALSE, calls |-> 0,
            signals |-> 0, lastDelay |-> -1, lastClean |-> FALSE,
            lastSignals |-> 0]
  /\ unit = NoUnit
  /\ color = NoColor
  /\ score = NoScore
  /\ \E length \in ListLengths : batch = [NoBatch EXCEPT !.length = length]
  /\ trip = NoTrip
  /\ BackgroundStarting

\* what the batch specification leaves alone
batchOthers == <<script, boot, wordsMap, isHighlighting, mutationTimeout, timers,
                 nodes, body, passes, records, mutations, walks, hist, deb, unit,
                 color, score, trip, popupVars, bgVars>>

\* processBatch is called, by highlightWords or as the idle or
\* animation-frame callback: end and deadline are set, the loop begins
BatchBegin ==
  /\ batch.pc = "scheduled"
  /\ batch' = [batch EXCEPT !.pc = "loop",
                            !.end = batchEnd(batch.processed, batch.length),
                            !.i = batch.processed,
                            !.elapsed = 0,
                            !.batches = @ + 1]
  /\ UNCHANGED batchOthers

\* one iteration of the for loop: the deadline check, then the unit
BatchUnit ==
  /\ batch.pc = "loop"
  /\ batch.i < batch.end
  /\ ~deadlinePassed(batch.elapsed)
  /\ \E ms \in UnitDurations :
       batch' = [batch EXCEPT !.i = @ + 1,
                             !.elapsed = Min(BudgetMs + MaxUnitMs, @ + ms)]
  /\ UNCHANGED batchOthers

\* the loop ends or breaks: processed = end, then the next callback is
\* requested or the pass is over
BatchEnd ==
  /\ batch.pc = "loop"
  /\ batch.i >= batch.end \/ deadlinePassed(batch.elapsed)
  /\ batch' = [batch EXCEPT !.processed = batch.end,
                            !.pc = IF batch.end < batch.length THEN "scheduled"
                                   ELSE "done"]
  /\ UNCHANGED batchOthers

NextBatch == BatchBegin \/ BatchUnit \/ BatchEnd

SpecBatch == InitBatch /\ [][NextBatch]_vars

\* C28: a unit is only started before the deadline of its batch, a batch
\* takes at most batchSize units of the list, and a batch only begins when
\* the host calls processBatch, after the batch before it has returned
C28_BatchBudget ==
  [][/\ (batch.pc = "loop" /\ batch'.i > batch.i) => batch.elapsed < BudgetMs
     /\ batch'.i - batch'.processed <= batchSize
     /\ batch'.processed - batch.processed <= batchSize
     /\ batch'.batches > batch.batches =>
          (batch.pc = "scheduled" /\ batch'.i = batch.processed)]_vars

\* a batch was cut short by its deadline and the pass went on in a later
\* batch
C28_Witness ==
  /\ batch.batches > 1
  /\ batch.pc = "loop"
  /\ batch.i > batch.processed
  /\ batch.i < batch.end
  /\ batch.elapsed >= BudgetMs

(***************************************************************************)
(* When a sync is started                                                  *)
(***************************************************************************)
\* the start-up chain makes its check in this step
startupChecks == startup.pc = "getMetadata" /\ startup'.pc = "running"

\* the setInterval callback runs in this step
timerFires == intervalDue # -1 /\ intervalDue' = intervalDue + SYNC_INTERVAL

\* the lastSync objects of the store
lastSyncObjects == {r \in store : r.word = metadataKey(LastSyncKey)}

\* no lastSync is stored or the stored one is more than SYNC_INTERVAL old
lastSyncOld ==
  lastSyncObjects = {} \/ \A r \in lastSyncObjects : now - r.value > SYNC_INTERVAL

\* syncWithAnki() is called in this step: a sync is in flight after it, a
\* new one unless one was running
syncAttempted ==
  /\ isSyncing'
  /\ syncs' # <<>>
  /\ ~isSyncing => bgHist'.started = bgHist.started + 1

syncTransactions == {k \in 1..Len(dbQueue) : dbQueue[k].owner = "sync"}

\* C29: at most one syncWithAnki call is past its guard, at most one of its
\* steps is pending, and isSyncing is set exactly while a call is in flight:
\* it is false once the call has ended, by success or by failure
C29_OneSyncInFlight ==
  /\ Len(syncs) <= 1
  /\ isSyncing <=> syncs # <<>>
  /\ Cardinality(syncTransactions) <= 1
  /\ \A k \in syncTransactions : \E i \in 1..Len(syncs) : syncs[i].id = dbQueue[k].id

\* a sync has ended by a failed save and the flag is clear
C29_Witness ==
  /\ "sync" \in bgHist.failed
  /\ bgHist.restarts = 0
  /\ bgHist.started > 0
  /\ syncs = <<>>
  /\ ~isSyncing

(***************************************************************************)
(* One response per message                                                *)
(***************************************************************************)
\* the request at r waits for an opening database, a transaction or a sync
\* that has not settled
requestPending(r) ==
  \/ requests[r].pc = "open"
  \/ \E k \in 1..Len(dbQueue) : dbQueue[k].owner = "request" /\ dbQueue[k].id = r
  \/ /\ requests[r].pc = "awaitSync"
     /\ \E i \in 1..Len(syncs) : syncs[i].id = requests[r].sync

\* C30: a message never has two responses, and a message without a
\* response waits for a request that has not settled, unless the script was
\* stopped
C30_OneResponse ==
  \A r \in 1..Len(requests) :
    /\ Len(requests[r].responses) <= 1
    /\ requests[r].responses = <<>> =>
         (requestPending(r) \/ requests[r].pc = "dropped")

(***************************************************************************)
(* The fetched mapping and the reads of the store                          *)
(***************************************************************************)
\* a sync has assigned the mapping of a fetch that succeeded and its
\* saveWords has not committed
savePending ==
  \E i \in 1..Len(syncs) : syncs[i].pc = "saveWords" /\ ~syncs[i].failed

\* the script is not stopped in this step
keepsRunning == bgHist'.restarts = bgHist.restarts

\* C31: from the assignment cachedWords = words of a sync until its
\* saveWords has committed, no step of the running script assigns another
\* mapping to cachedWords: what a read of the store returns in that time
\* was stored before the save
C31_NoStaleOverwrite ==
  [][(savePending /\ keepsRunning) => cachedWords' = cachedWords]_vars

(***************************************************************************)
(* The store specification: saveWords, saveMetadata, getWords              *)
(***************************************************************************)
\* the values of Date.now() a sync stores
SyncTimes == {StartHour, StartHour + SYNC_INTERVAL}

\* the mappings a sync saves: none, one or two words
SavedMappings == {<<>>} \cup UnitMappings

\* what the store holds before the save: nothing, or an earlier sync
EarlierStores ==
  {{}, dbSaveMetadata(dbSaveWords({}, Mapping), LastSyncKey, StartHour)}

InitStore ==
  /\ script = "main"
  /\ boot = "requested"
  /\ wordsMap = <<>>
  /\ isHighlighting = FALSE
  /\ mutationTimeout = 0
  /\ timers = {}
  /\ nodes = SmallDocument
  /\ body = [i \in 1..Len(nodes) |-> i]
  /\ passes = <<>>
  /\ records = <<>>
  /\ mutations = 0
  /\ walks = 0
  /\ hist = [incomplete |-> FALSE, lost |-> FALSE, late |-> {},
             retouchedLate |-> FALSE, laterReplaced |-> FALSE,
             excludedMatched |-> FALSE, removedThenSkipped |-> FALSE,
             nested |-> FALSE]
  /\ deb = [sinceSignal |-> 0, ignored |-> FALSE, armed |-> FALSE, calls |-> 0,
            signals |-> 0, lastDelay |-> -1, lastClean |-> FALSE,
            lastSignals |-> 0]
  /\ unit = NoUnit
  /\ color = NoColor
  /\ score = NoScore
  /\ batch = NoBatch
  /\ \E m \in SavedMappings, t \in SyncTimes, st \in EarlierStores :
       trip = [NoTrip EXCEPT !.m = m, !.t = t, !.st = st]
  /\ BackgroundStarting

\* what the store specification leaves alone
storeOthers == <<script, boot, wordsMap, isHighlighting, mutationTimeout, timers,
                 nodes, body, passes, records, mutations, walks, hist, deb, unit,
                 color, score, batch, popupVars, bgVars>>

\* await db.saveWords(m)
TripSaveWords ==
  /\ trip.pc = "start"
  /\ trip' = [trip EXCEPT !.pc = "saved", !.st = dbSaveWords(@, trip.m)]
  /\ UNCHANGED storeOthers

\* await db.saveMetadata("lastSync", t)
TripSaveMetadata ==
  /\ trip.pc = "saved"
  /\ trip' = [trip EXCEPT !.pc = "stamped",
                          !.st = dbSaveMetadata(@, LastSyncKey, trip.t)]
  /\ UNCHANGED storeOthers

\* await db.getWords()
TripGetWords ==
  /\ trip.pc = "stamped"
  /\ trip' = [trip EXCEPT !.pc = "loaded", !.result = dbGetWords(trip.st)]
  /\ UNCHANGED storeOthers

NextStore == TripSaveWords \/ TripSaveMetadata \/ TripGetWords

SpecStore == InitStore /\ [][NextStore]_vars

\* the entries of a Map, without their order
entrySet(entries) == {entries[i] : i \in 1..Len(entries)}

\* C32: getWords() after saveWords(m) and saveMetadata("lastSync", t)
\* returns null when m is empty and otherwise a map with exactly the words
\* and scores of m
C32_RoundTrip ==
  trip.pc = "loaded" =>
    IF trip.m = <<>> THEN trip.result.null
    ELSE /\ ~trip.result.null
         /\ entrySet(trip.result.entries) = entrySet(trip.m)

(***************************************************************************)
(* Who writes lastSync                                                     *)
(***************************************************************************)
\* a sync whose fetch failed is in flight
failedSyncRuns == \E i \in 1..Len(syncs) : syncs[i].failed

\* a sync whose fetch succeeded has saved its words
savedSyncRuns ==
  \E i \in 1..Len(syncs) : syncs[i].pc = "saveMetadata" /\ ~syncs[i].failed

\* C33: while the script runs, a lastSync object is put into the store only
\* by a sync whose fetch succeeded and whose words are saved, and the
\* lastSync of the store does not change while a sync whose fetch failed is
\* in flight
C33_LastSyncOnlyOnSuccess ==
  [][keepsRunning =>
       /\ (lastSyncObjects' # lastSyncObjects /\ lastSyncObjects' # {})
            => savedSyncRuns
       /\ failedSyncRuns => lastSyncObjects' = lastSyncObjects]_vars

(***************************************************************************)
(* Highlights do not nest                                                  *)
(***************************************************************************)
\* the text of the text nodes ids[lo..hi], in document order
RECURSIVE textOfRange(_, _, _, _)
textOfRange(ns, ids, lo, hi) ==
  IF lo > hi THEN <<>>
  ELSE IF lo = hi THEN ns[ids[lo]].text
  ELSE LET mid == (lo + hi) \div 2
       IN textOfRange(ns, ids, lo, mid) \o textOfRange(ns, ids, mid + 1, hi)

\* the text of the document
documentText(ns, bd) == textOfRange(ns, bd, 1, Len(bd))

NextQuiet ==
  \/ GetWordsResponse
  \/ GetWordsFailure
  \/ InitialHighlight
  \/ BatchCallback
  \/ ObserverCallback
  \/ DebounceTimeout
  \/ Tick

SpecQuiet == Init /\ [][NextQuiet]_vars

\* the passes a page of the model can get when nothing but the highlighter
\* changes it: a pass is followed by another only if it has rendered a
\* unit, and the documents of the model have at most four units to render
MaxPasses == 5

\* no pass is running and nothing is pending
quiescent ==
  /\ boot \in {"called", "failed"}
  /\ ~isHighlighting
  /\ passes = <<>>
  /\ records = <<>>
  /\ timers = {}

\* the units the passes from position i on have not reached
RECURSIVE unreachedFrom(_)
unreachedFrom(i) ==
  IF i > Len(passes) THEN 0
  ELSE Len(passes[i].textNodes) - passes[i].processed + unreachedFrom(i + 1)

\* the time left on the timers ts, and one for the callback of each
RECURSIVE timeLeft(_)
timeLeft(ts) ==
  IF ts = {} THEN 0
  ELSE LET t == CHOOSE x \in ts : TRUE IN t.left + 1 + timeLeft(ts \ {t})

\* what is left to do, most significant first: the start-up steps, the
\* passes that may still start, the units the running passes have not
\* reached, the queued records, the time and the callbacks of the timers
workLeft ==
  LET steps == IF boot = "requested" THEN 2 ELSE IF boot = "scheduled" THEN 1 ELSE 0
  IN <<steps, MaxPasses - walks, unreachedFrom(1), Len(records), timeLeft(timers)>>

\* a precedes b in the lexicographic order
lexLess(a, b) ==
  \E i \in 1..Len(a) : a[i] < b[i] /\ \A j \in 1..(i - 1) : a[j] = b[j]

\* a microtask, a callback or a timer of the content script is due, or
\* time can pass towards a timer
stepReady ==
  \/ records # <<>>
  \/ /\ records = <<>>
     /\ \/ boot = "requested"
        \/ boot = "scheduled" /\ Len(passes) < MaxActive
        \/ passes # <<>>
        \/ timers # {} /\ \A t \in timers : t.left > 0
        \/ Len(passes) < MaxActive /\ \E t \in timers : t.left = 0

\* C35: on a page that makes no mutation, at most MaxPasses passes are
\* started; every step of the content script reduces the work that is
\* left, so that only finitely many steps are taken; a state in which a
\* pass is running or something is pending has a next step; and a state
\* with no pass running, no record queued and no timer pending is not left
C35_SelfTriggeredPassesEnd ==
  /\ [][walks' <= MaxPasses]_vars
  /\ [][lexLess(workLeft', workLeft)]_vars
  /\ [](quiescent \/ stepReady)
  /\ [][quiescent => quiescent']_vars

\* the insertions of the initial pass have triggered a second pass, and
\* nothing is running or pending after it
C35_Witness ==
  /\ quiescent
  /\ walks >= 2
  /\ mutations = 0
  /\ \E i \in 1..Len(body) : nodes[body[i]].marked

(***************************************************************************)
(* The popup specification: Save in the popup while the background script  *)
(* starts                                                                  *)
(***************************************************************************)
\* what the deck name field holds when Save is clicked
DeckInputs == {<<>>, <<" ">>, <<" ", "N", "5">>, <<"N", "5", " ">>}

RECURSIVE trimStart(_)
trimStart(text) ==
  IF text # <<>> /\ Head(text) = " " THEN trimStart(Tail(text)) ELSE text

RECURSIVE trimEnd(_)
trimEnd(text) ==
  IF text # <<>> /\ text[Len(text)] = " "
  THEN trimEnd(SubSeq(text, 1, Len(text) - 1))
  ELSE text

\* deckNameInput.value.trim()
trim(text) == trimEnd(trimStart(text))

\* what the popup specification leaves alone in every step
popupOthers == <<pageVars, store, dbQueue, startup, now, intervalDue>>

\* the click handler up to its first await: an empty name is refused, else
\* browser.storage.local.set({ deckName }) is called
SaveClick ==
  /\ popup.pc = "idle"
  /\ \E input \in DeckInputs :
       popup' = IF trim(input) = <<>>
                THEN [popup EXCEPT !.pc = "refused"]
                ELSE [popup EXCEPT !.pc = "setting", !.name = trim(input)]
  /\ UNCHANGED <<deckName, cachedWords, isSyncing, syncs, requests, bgHist>>
  /\ UNCHANGED popupOthers

\* await browser.storage.local.set(...) resolves: the name is stored and
\* browser.runtime.sendMessage({ action: "refreshWords" }) is called
SaveStored ==
  /\ popup.pc = "setting"
  /\ deckName' = popup.name
  /\ popup' = [popup EXCEPT !.pc = "sending"]
  /\ UNCHANGED <<cachedWords, isSyncing, syncs, requests, bgHist>>
  /\ UNCHANGED popupOthers

\* the background script receives the refreshWords message of the popup:
\* syncWithAnki().then(...)
SaveRefresh ==
  /\ popup.pc = "sending"
  /\ popup' = [popup EXCEPT !.pc = "waiting", !.request = Len(requests) + 1]
  /\ IF syncGuard(isSyncing)
     THEN /\ requests' = Append(requests,
                                respond(mkRequest("refreshWords", "done", 0),
                                        cachedWords))
          /\ UNCHANGED <<isSyncing, syncs, bgHist>>
     ELSE /\ isSyncing' = TRUE
          /\ syncs' = Append(syncs, startSync(bgHist))
          /\ requests' = Append(requests,
                                mkRequest("refreshWords", "awaitSync",
                                          bgHist.started + 1))
          /\ bgHist' = [bgHist EXCEPT !.started = @ + 1]
  /\ UNCHANGED <<deckName, cachedWords>>
  /\ UNCHANGED popupOthers

\* await sendMessage(...) resolves with the response: tabs.query, then
\* tabs.reload(tab.id)
SaveReload ==
  /\ popup.pc = "waiting"
  /\ requests[popup.request].responses # <<>>
  /\ popup' = [popup EXCEPT !.pc = "reloaded"]
  /\ UNCHANGED <<deckName, cachedWords, isSyncing, syncs, requests, bgHist>>
  /\ UNCHANGED popupOthers

NextPopup ==
  \/ DbInitDone
  \/ StartupLoaded
  \/ StartupChecked
  \/ \E i \in 1..Len(syncs), outcome \in FetchOutcomes : FetchSettles(i, outcome)
  \/ \E i \in 1..Len(syncs) : SaveWordsDone(i)
  \/ \E i \in 1..Len(syncs) : SaveMetadataDone(i)
  \/ SaveClick
  \/ SaveStored
  \/ SaveRefresh
  \/ SaveReload

SpecPopup == InitSync /\ [][NextPopup]_vars

\* C36: when the popup reloads the tab, a sync that read the saved deck
\* name has ended; and after a click with an empty or blank name nothing
\* is stored, no refresh is requested and no tab is reloaded
C36_ReloadAfterSync ==
  /\ popup.pc = "reloaded" => popup.name \in bgHist.synced
  /\ popup.pc = "refused" => (deckName = <<>> /\ popup.request = 0)

(***************************************************************************)
(* One word list per pass                                                  *)
(***************************************************************************)
\* no entry of the list is longer than an entry before it
isLongestFirst(list) ==
  \A i, j \in 1..Len(list) : i < j => Len(list[i].word) >= Len(list[j].word)

\* the list has the entries of the mapping, each once
sameEntries(list, map) ==
  /\ Len(list) = Len(map)
  /\ {list[i] : i \in 1..Len(list)} = {map[i] : i \in 1..Len(map)}

\* C37: the word list of a pass in flight is the mapping arranged
\* longest-first, a pass keeps its list from batch to batch, and the
\* mapping does not change while a pass is in flight
C37_OneListPerPass ==
  /\ [](\A i \in 1..Len(passes) :
          /\ isLongestFirst(passes[i].sortedWords)
          /\ sameEntries(passes[i].sortedWords, wordsMap))
  /\ [][\A i \in 1..Len(passes), j \in 1..Len(passes') :
          passes'[j].number = passes[i].number
            => passes'[j].sortedWords = passes[i].sortedWords]_vars
  /\ [][passes # <<>> => wordsMap' = wordsMap]_vars

\* a pass with several words has run a batch and waits for its next one
C37_Witness ==
  \E i \in 1..Len(passes) :
    /\ passes[i].processed > 0
    /\ Len(passes[i].sortedWords) >= 2

====
